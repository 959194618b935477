---------------------------- MODULE ScannerProofs ----------------------------
(***************************************************************************)
(* Theorems about one run of the scanner, for any depth of linked scans,   *)
(* any number of faults, and any brands and likenesses: what it opens it   *)
(* closes, what it names it keeps (Scanner), and what the consistency task *)
(* makes of it is fair (Evidence).  Then those about the egress proxy of   *)
(* the same process and its DNS cache (EgressProxy), for any number of     *)
(* connections and names.                                                  *)
(***************************************************************************)
EXTENDS Evidence, EgressProxy, TLAPS

-----------------------------------------------------------------------------
(* Where a scan may be, and what it has open there.                        *)

WithPage == {"setup", "goto", "settle", "snapshot", "home", "full", "qr",
             "linked", "downloads", "cloaking", "open_normal", "read_normal",
             "open_bot", "read_bot", "close"}

Steps == WithPage \cup {"idle", "check", "launch", "context", "browser", "over"}

Uses == {"page", "normal", "bot"}

During(use, step) == \/ use = "page"   /\ step \in WithPage
                     \/ use = "normal" /\ step = "read_normal"
                     \/ use = "bot"    /\ step = "read_bot"

Places == {"none", "tmp", "shared", "gone"}

SamplePlaces == {"none", "coming", "here", "gone", "quarantine", "lost", "shared"}

ScannerTypeOK ==
  /\ at \in [Depths -> Steps]
  /\ contexts \subseteq Depths \X Uses
  /\ home \in [Depths -> Places] /\ full \in [Depths -> Places]
  /\ sample \in [Depths -> SamplePlaces]
  /\ row \in [Depths -> {"none", "unnamed", "named"}]

(* While a linked scan is under way, all those above it wait for it.       *)
Nested == \A d, e \in Depths : e < d /\ at[d] \notin {"idle", "over"} => at[e] = "linked"

(* A context is open only during the steps that need it.                   *)
ContextsOK ==
  \A d \in Depths, use \in Uses : <<d, use>> \in contexts => During(use, at[d])

(* The first scan launches the browser, and closes it last.                *)
BrowserOK ==
  /\ cli = "start" => /\ contexts = {} /\ browser = "none"
                      /\ \A d \in Depths : at[d] = "idle"
  /\ cli = "scanning" =>
       /\ \A d \in Depths : Using(d) => browser \in {"open", "crashed"}
       /\ at[0] \in {"idle", "check", "launch"} => browser = "none"
       /\ at[0] = "over" => browser \in {"none", "closed"}
  /\ cli \notin {"start", "scanning"} =>
       contexts = {} /\ browser \in {"none", "closed"} /\ proxy = "closed"

(* Before and after main has moved a file of the first scan.               *)
Before(steps) == cli \in {"start", "scanning"} \cup steps
After(steps)  == cli \in {"done"} \cup steps \/ (cli = "removed" /\ json = "saved")

SavedLast == json = "saved" => cli \in {"done", "removed"}

HomeOK == /\ Before({"home"}) => home[0] \in {"none", "tmp"}
          /\ After({"full", "sample", "write", "replace"}) => home[0] \in {"none", "shared"}

FullOK == /\ Before({"home", "full"}) => full[0] \in {"none", "tmp"}
          /\ After({"sample", "write", "replace"}) => full[0] \in {"none", "shared"}

SampleOK ==
  row[0] = "named" =>
    /\ Before({"home", "full", "sample"}) => sample[0] \in {"quarantine", "lost"}
    /\ After({"write", "replace"}) => sample[0] \in {"shared", "lost"}

(* The views are compared when the container has gone.                     *)
ReportInv ==
  /\ report # {} => cli = "removed"
  /\ SameViewsAreTrusted /\ NoViewIsSuspect

-----------------------------------------------------------------------------
(* No step leaves the types.                                               *)

LEMMA DepthFacts == /\ Depths \subseteq Nat /\ 0 \in Depths
                    /\ \A d \in Depths : d < MaxDepth => d + 1 \in Depths
BY ScannerAssumption DEF Depths

LEMMA TypeInit == ScannerInit => ScannerTypeOK
BY DEF ScannerInit, ScannerTypeOK, Steps, Places, SamplePlaces

LEMMA TypeScan ==
  ASSUME ScannerTypeOK, NEW d \in Depths, ScanUrl(d) \/ Page(d)
  PROVE  ScannerTypeOK'
<1> USE DEF ScannerTypeOK, AtStep, Goto, Raise, page, loot, process
<1>1. CASE Refuse(d) \/ Allow(d)
  BY <1>1 DEF Refuse, Allow, Steps, WithPage
<1>2. CASE Launch(d)
  BY <1>2 DEF Launch, Steps
<1>3. CASE OpenContext(d)
  BY <1>3 DEF OpenContext, Steps, WithPage, Uses
<1>4. CASE SetUp(d) \/ Settle(d) \/ CheckCloaking(d)
  BY <1>4 DEF SetUp, Settle, CheckCloaking, Steps, WithPage
<1>5. CASE Navigate(d) \/ Snapshot(d)
  BY <1>5 DEF Navigate, Snapshot, Steps, WithPage
<1>6. CASE ShootHome(d) \/ ShootFull(d)
  BY <1>6 DEF ShootHome, ShootFull, Shot, Steps, WithPage, Places
<1>7. CASE FollowCode(d)
  BY <1>7 DEF FollowCode, Steps, WithPage
<1>8. CASE NoCode(d) \/ Linked(d)
  BY <1>8 DEF NoCode, Linked, Steps, WithPage
<1>9. CASE NoDownload(d) \/ Quarantine(d) \/ QuarantineFails(d)
  BY <1>9 DEF NoDownload, Quarantine, QuarantineFails, Listed, Steps, WithPage, SamplePlaces
<1>10. CASE Discard(d)
  BY <1>10 DEF Discard, Listed, Drop, Steps, WithPage, SamplePlaces
<1>11. CASE OpenView(d, "normal", "open_normal", "read_normal")
  BY <1>11 DEF OpenView, Steps, WithPage, Uses
<1>12. CASE OpenView(d, "bot", "open_bot", "read_bot")
  BY <1>12 DEF OpenView, Steps, WithPage, Uses
<1>13. CASE ReadNormal(d) \/ ReadBot(d)
  BY <1>13 DEF ReadNormal, ReadBot, Shut, Steps, WithPage
<1>14. CASE CloseContext(d)
  BY <1>14 DEF CloseContext, Drop, Steps, SamplePlaces
<1>15. CASE CloseBrowser(d)
  BY <1>15 DEF CloseBrowser, Steps
<1>16. CASE Page(d)
  BY <1>16 DEF Page, DownloadBegins, DownloadEnds, SamplePlaces
<1> QED
  BY <1>1, <1>2, <1>3, <1>4, <1>5, <1>6, <1>7, <1>8, <1>9, <1>10, <1>11, <1>12,
     <1>13, <1>14, <1>15, <1>16 DEF ScanUrl

LEMMA TypeMain ==
  ASSUME ScannerTypeOK, Main \/ BrowserCrashes \/ RemoveContainer
  PROVE  ScannerTypeOK'
<1> USE DepthFacts DEF ScannerTypeOK, page, loot, process
<1>1. CASE Begin
  BY <1>1 DEF Begin, Goto, Steps
<1>2. CASE Returned \/ MainFails \/ WriteJson \/ ReplaceJson
  BY <1>2 DEF Returned, AtStep, MainFails, WriteJson, ReplaceJson
<1>3. CASE MoveHome \/ MoveFull
  BY <1>3 DEF MoveHome, MoveFull, Moved, Places
<1>4. CASE MoveSample
  BY <1>4 DEF MoveSample, SamplePlaces
<1>5. CASE BrowserCrashes
  BY <1>5 DEF BrowserCrashes, Drop, SamplePlaces
<1>6. CASE RemoveContainer
  BY <1>6 DEF RemoveContainer, Remains, Kept, Steps, Places, SamplePlaces
<1> QED
  BY <1>1, <1>2, <1>3, <1>4, <1>5, <1>6 DEF Main

-----------------------------------------------------------------------------
(* What is opened is closed.                                               *)

Shape == Nested /\ ContextsOK /\ BrowserOK

(* A step from one line of scan_url to another that opens and closes       *)
(* nothing.                                                                *)
Walk(d) ==
  /\ cli = "scanning"
  /\ at[d] \in WithPage \ {"read_normal", "read_bot"}
  /\ at[d] = "linked" => at[d + 1] = "over"
  /\ \E step \in WithPage \ {"linked"} : Goto(d, step)
  /\ UNCHANGED <<cli, proxy, browser, contexts>>

(* Who is below a scan that does not wait for a linked one is not active.  *)
LEMMA Lowest ==
  ASSUME Nested, NEW d \in Depths, at[d] # "linked" \/ at[d + 1] \in {"idle", "over"},
         NEW e \in Depths, d < e
  PROVE  at[e] \in {"idle", "over"}
<1>1. CASE at[d] # "linked"
  BY <1>1 DEF Nested
<1>2. CASE at[d + 1] \in {"idle", "over"}
  <2>1. CASE e = d + 1
    BY <1>2, <2>1
  <2>2. CASE d + 1 < e
    <3>1. d + 1 \in Depths
      BY <2>2, ScannerAssumption DEF Depths
    <3> QED
      BY <1>2, <2>2, <3>1 DEF Nested
  <2> QED
    BY <2>1, <2>2, DepthFacts
<1> QED
  BY <1>1, <1>2

LEMMA WalkKeeps ==
  ASSUME ScannerTypeOK, Shape, NEW d \in Depths, Walk(d)
  PROVE  Shape'
<1> PICK step \in WithPage \ {"linked"} : Goto(d, step)
  BY DEF Walk
<1>1. /\ cli = "scanning" /\ cli' = cli /\ contexts' = contexts /\ browser' = browser
      /\ at' = [at EXCEPT ![d] = step] /\ at \in [Depths -> Steps]
  BY DEF Walk, Goto, ScannerTypeOK
<1>2. \A e \in Depths : d < e => at[e] \in {"idle", "over"}
  BY Lowest DEF Walk, Shape
<1>3. Nested'
  BY <1>1, <1>2, DepthFacts DEF Nested, Shape, Walk, WithPage
<1>4. ContextsOK'
  BY <1>1 DEF Shape, ContextsOK, During, Walk, WithPage
<1>5. BrowserOK'
  BY <1>1 DEF Shape, BrowserOK, Using, Walk, WithPage
<1> QED
  BY <1>3, <1>4, <1>5 DEF Shape

LEMMA WalksWalk ==
  ASSUME ScannerTypeOK, NEW d \in Depths,
         \/ SetUp(d) \/ Navigate(d) \/ Settle(d) \/ Snapshot(d) \/ ShootHome(d)
         \/ ShootFull(d) \/ NoCode(d) \/ Linked(d) \/ NoDownload(d) \/ Discard(d)
         \/ Quarantine(d) \/ QuarantineFails(d) \/ CheckCloaking(d)
  PROVE  Walk(d)
<1> USE DEF Walk, AtStep, Raise, Goto, WithPage, process
<1>1. CASE SetUp(d) \/ Settle(d) \/ CheckCloaking(d)
  BY <1>1 DEF SetUp, Settle, CheckCloaking
<1>2. CASE Navigate(d) \/ Snapshot(d) \/ ShootHome(d) \/ ShootFull(d)
  BY <1>2 DEF Navigate, Snapshot, ShootHome, ShootFull
<1>3. CASE NoCode(d) \/ Linked(d)
  BY <1>3 DEF NoCode, Linked
<1>4. CASE NoDownload(d) \/ Discard(d) \/ Quarantine(d) \/ QuarantineFails(d)
  BY <1>4 DEF NoDownload, Discard, Quarantine, QuarantineFails, Listed
<1> QED
  BY <1>1, <1>2, <1>3, <1>4

(* A step that neither moves a scan nor opens anything.                    *)
LEMMA StillKeeps ==
  ASSUME Shape, UNCHANGED <<cli, proxy, contexts, at>>,
         browser' = browser \/ (cli = "scanning" /\ browser = "open" /\ browser' = "crashed")
  PROVE  Shape'
BY DEF Shape, Nested, ContextsOK, BrowserOK, Using

LEMMA EntryKeeps ==
  ASSUME ScannerTypeOK, Shape, NEW d \in Depths,
         Refuse(d) \/ Allow(d) \/ Launch(d) \/ OpenContext(d)
  PROVE  Shape'
<1> USE DepthFacts DEF AtStep, Goto, Raise, process
<1>1. /\ cli = "scanning" /\ cli' = cli /\ at \in [Depths -> Steps]
      /\ at[d] \in {"check", "launch", "context"}
  BY DEF Refuse, Allow, Launch, OpenContext, ScannerTypeOK
<1>2. \A e \in Depths : d < e => at[e] \in {"idle", "over"}
  BY <1>1, Lowest DEF Shape
<1>3. \A e \in Depths : e < d => at[e] = "linked"
  BY <1>1 DEF Shape, Nested
<1>4. d # 0 => browser \in {"open", "crashed"}
  <2>1. d # 0 => at[0] = "linked"
    BY <1>3, ScannerAssumption DEF Depths
  <2> QED
    BY <1>1, <2>1 DEF Shape, BrowserOK, Using
<1>5. CASE Refuse(d)
  <2>1. at' = [at EXCEPT ![d] = "over"] /\ UNCHANGED <<browser, contexts>>
    BY <1>5 DEF Refuse
  <2>2. Nested'
    BY <1>1, <1>2, <2>1 DEF Shape, Nested
  <2>3. ContextsOK'
    BY <1>1, <1>5, <2>1 DEF Shape, ContextsOK, During, WithPage, Refuse
  <2>4. BrowserOK'
    BY <1>1, <1>3, <1>5, <2>1 DEF Shape, BrowserOK, Using, Refuse
  <2> QED
    BY <2>2, <2>3, <2>4 DEF Shape
<1>6. CASE Allow(d)
  <2> DEFINE step == IF Owns(d) THEN "launch" ELSE "context"
  <2>1. at' = [at EXCEPT ![d] = step] /\ UNCHANGED <<browser, contexts>> /\ at[d] = "check"
    BY <1>6 DEF Allow
  <2>2. Nested'
    BY <1>1, <1>2, <1>3, <2>1 DEF Shape, Nested, Owns
  <2>3. ContextsOK'
    BY <1>1, <2>1 DEF Shape, ContextsOK, During, WithPage
  <2>4. BrowserOK'
    BY <1>1, <1>3, <1>4, <2>1 DEF Shape, BrowserOK, Using, Owns
  <2> QED
    BY <2>2, <2>3, <2>4 DEF Shape
<1>7. CASE Launch(d)
  <2>1. PICK step \in {"context", "over"} :
          /\ at' = [at EXCEPT ![d] = step] /\ contexts' = contexts /\ at[d] = "launch"
          /\ browser' = IF step = "context" THEN "open" ELSE browser
    BY <1>7 DEF Launch
  <2>2. Nested'
    BY <1>1, <1>2, <1>3, <2>1 DEF Shape, Nested
  <2>3. ContextsOK'
    BY <1>1, <2>1 DEF Shape, ContextsOK, During, WithPage
  <2>4. BrowserOK'
    BY <1>1, <1>3, <1>4, <2>1 DEF Shape, BrowserOK, Using
  <2> QED
    BY <2>2, <2>3, <2>4 DEF Shape
<1>8. CASE OpenContext(d)
  <2>1. PICK step \in {"setup", "browser"} :
          /\ at' = [at EXCEPT ![d] = step] /\ browser' = browser /\ at[d] = "context"
          /\ contexts' = IF step = "setup" THEN contexts \cup {<<d, "page">>} ELSE contexts
    BY <1>8 DEF OpenContext, Works, Raises, Fault
  <2>2. Nested'
    BY <1>1, <1>2, <1>3, <2>1 DEF Shape, Nested
  <2>3. ContextsOK'
    BY <1>1, <2>1 DEF Shape, ContextsOK, During, WithPage
  <2>4. BrowserOK'
    BY <1>1, <1>3, <1>4, <2>1 DEF Shape, BrowserOK, Using
  <2> QED
    BY <2>2, <2>3, <2>4 DEF Shape
<1> QED
  BY <1>5, <1>6, <1>7, <1>8

LEMMA FollowCodeKeeps ==
  ASSUME ScannerTypeOK, Shape, NEW d \in Depths, FollowCode(d)
  PROVE  Shape'
<1>1. /\ cli = "scanning" /\ at[d] = "qr" /\ at \in [Depths -> Steps] /\ d + 1 \in Depths
      /\ at' = [at EXCEPT ![d] = "linked", ![d + 1] = "check"]
      /\ UNCHANGED <<cli, proxy, browser, contexts>>
  BY DepthFacts DEF FollowCode, AtStep, process, ScannerTypeOK
<1>2. \A e \in Depths : d < e => at[e] \in {"idle", "over"}
  BY <1>1, Lowest DEF Shape
<1>3. /\ at'[d] = "linked" /\ at'[d + 1] = "check"
      /\ \A e \in Depths \ {d, d + 1} : at'[e] = at[e]
  BY <1>1, DepthFacts
<1>4. Nested'
  <2> SUFFICES ASSUME NEW e \in Depths, NEW f \in Depths, f < e, at'[e] \notin {"idle", "over"}
               PROVE  at'[f] = "linked"
    BY DEF Nested
  <2>1. e \in Nat /\ f \in Nat /\ d \in Nat
    BY DepthFacts
  <2>2. e <= d + 1
    BY <1>2, <1>3, <2>1
  <2>3. f = d \/ f < d
    BY <2>1, <2>2
  <2> QED
    BY <1>1, <1>3, <2>1, <2>3 DEF Shape, Nested
<1>5. ContextsOK'
  <2>1. at[d + 1] \in {"idle", "over"}
    BY <1>1, <1>2, DepthFacts
  <2> QED
    BY <1>1, <1>3, <2>1 DEF Shape, ContextsOK, During, WithPage
<1>6. BrowserOK'
  <2>1. d + 1 # 0 /\ at[0] # "over"
    <3>1. CASE d = 0
      BY <1>1, <3>1
    <3>2. CASE d # 0
      BY <1>1, <3>2, DepthFacts DEF Shape, Nested
    <3> QED
      BY <3>1, <3>2, DepthFacts
  <2>2. /\ at'[0] \notin {"idle", "check", "launch", "over"}
        /\ browser \in {"open", "crashed"}
    <3>1. CASE d = 0
      BY <1>1, <1>3, <3>1 DEF Shape, BrowserOK, Using
    <3>2. CASE d # 0
      <4>1. at[0] = "linked"
        BY <1>1, <3>2, DepthFacts DEF Shape, Nested
      <4> QED
        BY <1>1, <1>3, <2>1, <3>2, <4>1, DepthFacts DEF Shape, BrowserOK, Using
    <3> QED
      BY <3>1, <3>2
  <2> QED
    BY <1>1, <2>2 DEF BrowserOK
<1> QED
  BY <1>4, <1>5, <1>6 DEF Shape

LEMMA ViewsKeep ==
  ASSUME ScannerTypeOK, Shape, NEW d \in Depths,
         \/ OpenView(d, "normal", "open_normal", "read_normal") \/ ReadNormal(d)
         \/ OpenView(d, "bot", "open_bot", "read_bot") \/ ReadBot(d)
  PROVE  Shape'
<1> USE DEF AtStep, Goto, process
<1>1. PICK step \in {"read_normal", "open_bot", "read_bot", "close"} :
        at' = [at EXCEPT ![d] = step]
  BY DEF OpenView, ReadNormal, ReadBot
<1>2. /\ cli = "scanning" /\ UNCHANGED <<cli, proxy, browser>> /\ at \in [Depths -> Steps]
      /\ at[d] \in {"open_normal", "read_normal", "open_bot", "read_bot"}
  BY DEF OpenView, ReadNormal, ReadBot, ScannerTypeOK
<1>3. \A e \in Depths : d < e => at[e] \in {"idle", "over"}
  BY <1>2, Lowest DEF Shape
<1>4. Nested'
  BY <1>1, <1>2, <1>3, DepthFacts DEF Shape, Nested
<1>5. ContextsOK'
  <2>1. CASE OpenView(d, "normal", "open_normal", "read_normal")
    BY <1>2, <2>1 DEF Shape, ContextsOK, During, OpenView, WithPage
  <2>2. CASE OpenView(d, "bot", "open_bot", "read_bot")
    BY <1>2, <2>2 DEF Shape, ContextsOK, During, OpenView, WithPage
  <2>3. CASE ReadNormal(d)
    BY <1>2, <2>3 DEF Shape, ContextsOK, During, ReadNormal, Shut, WithPage
  <2>4. CASE ReadBot(d)
    BY <1>2, <2>4 DEF Shape, ContextsOK, During, ReadBot, Shut, WithPage
  <2> QED
    BY <2>1, <2>2, <2>3, <2>4
<1>6. BrowserOK'
  BY <1>1, <1>2 DEF Shape, BrowserOK, Using
<1> QED
  BY <1>4, <1>5, <1>6 DEF Shape

LEMMA CloseContextKeeps ==
  ASSUME ScannerTypeOK, Shape, NEW d \in Depths, CloseContext(d)
  PROVE  Shape'
<1>1. /\ cli = "scanning" /\ at[d] = "close" /\ at' = [at EXCEPT ![d] = "browser"]
      /\ contexts' = contexts \ {<<d, "page">>}
      /\ UNCHANGED <<cli, proxy, browser>> /\ at \in [Depths -> Steps]
  BY DEF CloseContext, AtStep, Goto, process, ScannerTypeOK
<1>2. \A e \in Depths : d < e => at[e] \in {"idle", "over"}
  BY <1>1, Lowest DEF Shape
<1>3. Nested'
  BY <1>1, <1>2, DepthFacts DEF Shape, Nested
<1>4. ContextsOK'
  BY <1>1 DEF Shape, ContextsOK, During, WithPage, Uses
<1>5. BrowserOK'
  BY <1>1 DEF Shape, BrowserOK, Using
<1> QED
  BY <1>3, <1>4, <1>5 DEF Shape

(* The browser closes under nobody: those above wait, those below are over.*)
LEMMA CloseBrowserKeeps ==
  ASSUME ScannerTypeOK, Shape, NEW d \in Depths, CloseBrowser(d)
  PROVE  Shape'
<1>1. /\ cli = "scanning" /\ at[d] = "browser" /\ at' = [at EXCEPT ![d] = "over"]
      /\ UNCHANGED <<cli, proxy>> /\ at \in [Depths -> Steps]
      /\ IF d = 0 THEN browser' = "closed" /\ contexts' = {} ELSE UNCHANGED <<browser, contexts>>
  BY DEF CloseBrowser, AtStep, Goto, Owns, process, ScannerTypeOK
<1>2. \A e \in Depths : d < e => at[e] \in {"idle", "over"}
  BY <1>1, Lowest DEF Shape
<1>3. Nested'
  BY <1>1, <1>2, DepthFacts DEF Shape, Nested
<1>4. ContextsOK'
  BY <1>1 DEF Shape, ContextsOK, During, WithPage
<1>5. BrowserOK'
  <2>1. CASE d = 0
    <3>1. \A e \in Depths : e = 0 \/ 0 < e
      BY DepthFacts
    <3>2. \A e \in Depths : at'[e] \in {"idle", "over"}
      BY <1>1, <1>2, <2>1, <3>1
    <3> QED
      BY <1>1, <2>1, <3>2, DepthFacts DEF BrowserOK, Using
  <2>2. CASE d # 0
    BY <1>1, <2>2, DepthFacts DEF Shape, BrowserOK, Using
  <2> QED
    BY <2>1, <2>2
<1> QED
  BY <1>3, <1>4, <1>5 DEF Shape

LEMMA MainKeeps ==
  ASSUME ScannerTypeOK, Shape, Main \/ BrowserCrashes \/ RemoveContainer
  PROVE  Shape'
<1>1. CASE Begin
  BY <1>1, DepthFacts DEF Begin, Goto, Shape, Nested, ContextsOK, BrowserOK, Using, ScannerTypeOK
<1>2. CASE Returned
  <2>1. /\ cli = "scanning" /\ at[0] = "over" /\ UNCHANGED <<browser, contexts, at>>
        /\ proxy' = "closed" /\ cli' \in {"failed", "home"}
    BY <1>2 DEF Returned, AtStep
  <2>2. \A d \in Depths : d = 0 \/ 0 < d
    BY DepthFacts
  <2>3. \A d \in Depths : at[d] \in {"idle", "over"}
    BY <2>1, <2>2, Lowest, DepthFacts DEF Shape
  <2>4. contexts = {}
    BY <2>3 DEF ScannerTypeOK, Shape, ContextsOK, During, WithPage
  <2> QED
    BY <2>1, <2>3, <2>4 DEF Shape, Nested, ContextsOK, BrowserOK
<1>3. CASE MoveHome \/ MoveFull \/ MoveSample \/ WriteJson \/ ReplaceJson \/ MainFails
  BY <1>3 DEF MoveHome, MoveFull, MoveSample, WriteJson, ReplaceJson, MainFails,
              Shape, Nested, ContextsOK, BrowserOK
<1>4. CASE BrowserCrashes
  BY <1>4, StillKeeps DEF BrowserCrashes, process
<1>5. CASE RemoveContainer
  BY <1>5 DEF RemoveContainer, Shape, Nested, ContextsOK, BrowserOK
<1> QED
  BY <1>1, <1>2, <1>3, <1>4, <1>5 DEF Main

LEMMA ShapeNext == ScannerTypeOK /\ Shape /\ ScannerNext => Shape'
<1> SUFFICES ASSUME ScannerTypeOK, Shape, ScannerNext
             PROVE  Shape'
  OBVIOUS
<1>1. ASSUME NEW d \in Depths, ScanUrl(d) \/ Page(d)
      PROVE  Shape'
  <2>1. CASE Page(d)
    BY <2>1, StillKeeps DEF Page, DownloadBegins, DownloadEnds, process
  <2>2. CASE Refuse(d) \/ Allow(d) \/ Launch(d) \/ OpenContext(d)
    BY <2>2, EntryKeeps
  <2>3. CASE \/ SetUp(d) \/ Navigate(d) \/ Settle(d) \/ Snapshot(d) \/ ShootHome(d)
             \/ ShootFull(d) \/ NoCode(d) \/ Linked(d) \/ NoDownload(d) \/ Discard(d)
             \/ Quarantine(d) \/ QuarantineFails(d) \/ CheckCloaking(d)
    BY <2>3, WalksWalk, WalkKeeps
  <2>4. CASE \/ OpenView(d, "normal", "open_normal", "read_normal") \/ ReadNormal(d)
             \/ OpenView(d, "bot", "open_bot", "read_bot") \/ ReadBot(d)
    BY <2>4, ViewsKeep
  <2>5. CASE FollowCode(d) \/ CloseContext(d) \/ CloseBrowser(d)
    BY <2>5, FollowCodeKeeps, CloseContextKeeps, CloseBrowserKeeps
  <2> QED
    BY <1>1, <2>1, <2>2, <2>3, <2>4, <2>5 DEF ScanUrl
<1> QED
  BY <1>1, MainKeeps DEF ScannerNext

LEMMA TypeNext == ScannerTypeOK /\ ScannerNext => ScannerTypeOK'
BY TypeScan, TypeMain DEF ScannerNext

LEMMA LifetimeInductive == Spec => [](ScannerTypeOK /\ Shape)
<1>1. Init => ScannerTypeOK /\ Shape
  BY TypeInit, DepthFacts DEF Init, ScannerInit, Shape, Nested, ContextsOK, BrowserOK
<1>2. ScannerTypeOK /\ Shape /\ [Next]_vars => (ScannerTypeOK /\ Shape)'
  <2> SUFFICES ASSUME ScannerTypeOK, Shape, [Next]_vars
               PROVE  ScannerTypeOK' /\ Shape'
    OBVIOUS
  <2>1. CASE ScannerNext
    BY <2>1, TypeNext, ShapeNext
  <2>2. CASE UNCHANGED scanner
    <3>1. UNCHANGED <<cli, proxy, browser, contexts, at, home, full, sample, row>>
      BY <2>2 DEF scanner, process, page, loot
    <3> QED
      BY <3>1, StillKeeps DEF ScannerTypeOK
  <2> QED
    BY <2>1, <2>2 DEF Next, CompareSame, CompareOther, vars
<1> QED
  BY <1>1, <1>2, PTL DEF Spec

(* No scan of any depth is left without its browser, however many faults   *)
(* there are; none leaves a context open, nor main the browser or the      *)
(* proxy.                                                                  *)
THEOREM LifetimesCorrect == Spec => []Lifetimes
<1>1. ScannerTypeOK /\ Shape => Lifetimes
  <2> SUFFICES ASSUME ScannerTypeOK, Shape, NEW c \in contexts
               PROVE  Using(c[1])
    BY DEF Shape, BrowserOK, Lifetimes
  <2>1. PICK d \in Depths, use \in Uses : c = <<d, use>>
    BY DEF ScannerTypeOK
  <2> QED
    BY <2>1 DEF Shape, ContextsOK, During, WithPage, Using
<1> QED
  BY <1>1, LifetimeInductive, PTL

-----------------------------------------------------------------------------
(* What is named is kept.                                                  *)

Files == SavedLast /\ HomeOK /\ FullOK /\ SampleOK

LEMMA FilesScan ==
  ASSUME ScannerTypeOK, Files, NEW d \in Depths, ScanUrl(d) \/ Page(d)
  PROVE  Files'
<1> USE DEF AtStep, page, loot, process, ScannerTypeOK, Files
<1>1. /\ cli = "scanning" /\ cli' = cli /\ json' = json /\ 0 \in Depths
      /\ home[0] \in {"none", "tmp"} /\ full[0] \in {"none", "tmp"}
      /\ row[0] = "named" => sample[0] \in {"quarantine", "lost"}
  <2>1. cli = "scanning" /\ UNCHANGED process
    BY DEF ScanUrl, Page, Refuse, Allow, Launch, OpenContext, SetUp, Navigate, Settle,
           Snapshot, ShootHome, ShootFull, FollowCode, NoCode, Linked, NoDownload,
           Discard, Quarantine, QuarantineFails, Listed, CheckCloaking, OpenView,
           ReadNormal, ReadBot, CloseContext, CloseBrowser, DownloadBegins, DownloadEnds
  <2> QED
    BY <2>1, DepthFacts DEF HomeOK, FullOK, SampleOK, Before
<1>2. SUFFICES /\ home'[0] \in {"none", "tmp"} /\ full'[0] \in {"none", "tmp"}
               /\ row'[0] = "named" => sample'[0] \in {"quarantine", "lost"}
  BY <1>1 DEF SavedLast, HomeOK, FullOK, SampleOK, Before, After
<1>3. CASE UNCHANGED <<home, full, sample, row>>
  BY <1>1, <1>3
<1>4. CASE ShootHome(d) \/ ShootFull(d)
  BY <1>1, <1>4 DEF ShootHome, ShootFull, Shot
<1>5. CASE NoDownload(d) \/ Quarantine(d) \/ QuarantineFails(d)
  BY <1>1, <1>5 DEF NoDownload, Quarantine, QuarantineFails, Listed
<1>6. CASE Discard(d)
  BY <1>1, <1>6 DEF Discard, Listed, Drop
<1>7. CASE CloseContext(d)
  BY <1>1, <1>7 DEF CloseContext, Drop
<1>8. CASE Page(d)
  BY <1>1, <1>8 DEF Page, DownloadBegins, DownloadEnds
<1> QED
  BY <1>3, <1>4, <1>5, <1>6, <1>7, <1>8
     DEF ScanUrl, Refuse, Allow, Launch, OpenContext, SetUp, Navigate, Settle, Snapshot,
         FollowCode, NoCode, Linked, CheckCloaking, OpenView, ReadNormal, ReadBot,
         CloseBrowser

LEMMA FilesMain ==
  ASSUME ScannerTypeOK, Files, Main \/ BrowserCrashes \/ RemoveContainer
  PROVE  Files'
<1> USE DepthFacts
        DEF page, loot, process, ScannerTypeOK, Files, SavedLast, HomeOK, FullOK,
            SampleOK, Before, After
<1>1. CASE Begin \/ Returned
  BY <1>1 DEF Begin, Returned, AtStep
<1>2. CASE MoveHome \/ MoveFull
  BY <1>2 DEF MoveHome, MoveFull, Moved
<1>3. CASE MoveSample
  BY <1>3 DEF MoveSample
<1>4. CASE WriteJson \/ ReplaceJson \/ MainFails
  BY <1>4 DEF WriteJson, ReplaceJson, MainFails
<1>5. CASE BrowserCrashes
  BY <1>5 DEF BrowserCrashes, Drop
<1>6. CASE RemoveContainer
  BY <1>6 DEF RemoveContainer, Ended, Killed, Remains, Kept
<1> QED
  BY <1>1, <1>2, <1>3, <1>4, <1>5, <1>6 DEF Main

LEMMA FilesInductive == Spec => [](ScannerTypeOK /\ Files)
<1>1. Init => ScannerTypeOK /\ Files
  BY TypeInit, DepthFacts
     DEF Init, ScannerInit, Files, SavedLast, HomeOK, FullOK, SampleOK, After
<1>2. ScannerTypeOK /\ Files /\ [Next]_vars => (ScannerTypeOK /\ Files)'
  <2> SUFFICES ASSUME ScannerTypeOK, Files, [Next]_vars
               PROVE  ScannerTypeOK' /\ Files'
    OBVIOUS
  <2>1. CASE ScannerNext
    BY <2>1, TypeNext, FilesScan, FilesMain DEF ScannerNext
  <2>2. CASE UNCHANGED scanner
    BY <2>2 DEF scanner, process, page, loot, ScannerTypeOK, Files, SavedLast, HomeOK,
                FullOK, SampleOK, Before, After
  <2> QED
    BY <2>1, <2>2 DEF Next, CompareSame, CompareOther, vars
<1> QED
  BY <1>1, <1>2, PTL DEF Spec

(* A result that was saved names only files that are still there when the  *)
(* container has gone, wherever it was killed and whatever failed.         *)
THEOREM NamedFilesCorrect == Spec => []NamedFilesAreKept
<1>1. ScannerTypeOK /\ Files => NamedFilesAreKept
  BY DEF Files, HomeOK, FullOK, SampleOK, After, NamedFilesAreKept
<1> QED
  BY <1>1, FilesInductive, PTL

-----------------------------------------------------------------------------
(* The report is fair.                                                     *)

Sights == [png : BOOLEAN, html : {FALSE}, picture : 0 .. 10, wording : 0 .. 10,
           source : 0 .. 10, title : 0 .. 10, url : 0 .. 10, text : BOOLEAN,
           brand : Brands \cup {NoBrand}]

(* How a category counts in the score: with its weight, or not at all.     *)
Active(comparisons, c) == IF comparisons[c].indeterminate THEN 0 ELSE WEIGHTS[c]

LEMMA BelowSum ==
  ASSUME NEW r
  PROVE  Below(r) <=>
           r.screenshot.similarity * Active(r, "screenshot") + r.ocr.similarity * Active(r, "ocr")
             + r.dom.similarity * Active(r, "dom") + r.metadata.similarity * Active(r, "metadata")
             + r.logo.similarity * Active(r, "logo")
           < 6 * (Active(r, "screenshot") + Active(r, "ocr") + Active(r, "dom")
                    + Active(r, "metadata") + Active(r, "logo"))
BY DEF Below, Total, Active, Categories, WEIGHTS, MISMATCH_THRESHOLD

(* Alike but for the title and the URL, two views are above the threshold. *)
LEMMA SameTrusted ==
  ASSUME NEW shown \in Shows, NEW seen \in Sights, seen.png,
         seen.picture = 10, seen.wording = 10,
         seen.text = shown.text, seen.brand = shown.brand
  PROVE  ~Report(Analyze(shown, seen)).cloaking_suspected
<1> DEFINE r == Analyze(shown, seen)
<1>1. /\ r.screenshot = Similar(10)
      /\ r.ocr \in {Similar(10), Indeterminate}
      /\ r.dom = Indeterminate
      /\ r.logo \in {Similar(10), Indeterminate}
  BY DEF Analyze, CompareScreenshots, CompareOcr, CompareDom, CompareLogo, Sights, Shows
<1>2. PICK m \in 0 .. 10 : r.metadata = Similar(m)
  BY DEF Analyze, CompareMetadata, Sights
<1> HIDE DEF r
<1>3. /\ r.screenshot.similarity * Active(r, "screenshot") = 250
      /\ Active(r, "screenshot") = 25
  BY <1>1 DEF Active, Similar, WEIGHTS
<1>4. \/ r.ocr.similarity * Active(r, "ocr") = 200 /\ Active(r, "ocr") = 20
      \/ r.ocr.similarity * Active(r, "ocr") = 0 /\ Active(r, "ocr") = 0
  BY <1>1 DEF Active, Similar, Indeterminate, WEIGHTS
<1>5. r.dom.similarity * Active(r, "dom") = 0 /\ Active(r, "dom") = 0
  BY <1>1 DEF Active, Indeterminate
<1>6. /\ r.metadata.similarity * Active(r, "metadata") = m * 15
      /\ Active(r, "metadata") = 15
  BY <1>2 DEF Active, Similar, WEIGHTS
<1>7. \/ r.logo.similarity * Active(r, "logo") = 200 /\ Active(r, "logo") = 20
      \/ r.logo.similarity * Active(r, "logo") = 0 /\ Active(r, "logo") = 0
  BY <1>1 DEF Active, Similar, Indeterminate, WEIGHTS
<1>8. ~Below(r)
  <2>1. m * 15 \in Int /\ m * 15 >= 0
    BY SMT
  <2> QED
    BY <1>3, <1>4, <1>5, <1>6, <1>7, <2>1, BelowSum
<1>9. ~(~r["logo"].indeterminate /\ r["logo"].similarity < MISMATCH_THRESHOLD)
  BY <1>1 DEF Similar, Indeterminate, MISMATCH_THRESHOLD
<1> QED
  BY <1>8, <1>9 DEF Report, r

(* Nor can anything make up for a screenshot that is not there.            *)
LEMMA BlindSuspect ==
  ASSUME NEW shown \in Shows, NEW seen \in Sights, ~seen.png
  PROVE  Report(Analyze(shown, seen)).cloaking_suspected
<1> DEFINE r == Analyze(shown, seen)
<1>1. /\ r.screenshot = Similar(0)
      /\ r.ocr \in {Similar(0), Indeterminate}
      /\ r.dom = Indeterminate
      /\ r.logo \in {Similar(0), Indeterminate}
  BY DEF Analyze, CompareScreenshots, CompareOcr, CompareDom, CompareLogo, Sights, Shows
<1>2. PICK m \in 0 .. 10 : r.metadata = Similar(m)
  BY DEF Analyze, CompareMetadata, Sights
<1> HIDE DEF r
<1>3. /\ r.screenshot.similarity * Active(r, "screenshot") = 0
      /\ Active(r, "screenshot") = 25
  BY <1>1 DEF Active, Similar, WEIGHTS
<1>4. /\ r.ocr.similarity * Active(r, "ocr") = 0
      /\ Active(r, "ocr") \in {0, 20}
  BY <1>1 DEF Active, Similar, Indeterminate, WEIGHTS
<1>5. r.dom.similarity * Active(r, "dom") = 0 /\ Active(r, "dom") = 0
  BY <1>1 DEF Active, Indeterminate
<1>6. /\ r.metadata.similarity * Active(r, "metadata") = m * 15
      /\ Active(r, "metadata") = 15
  BY <1>2 DEF Active, Similar, WEIGHTS
<1>7. /\ r.logo.similarity * Active(r, "logo") = 0
      /\ Active(r, "logo") \in {0, 20}
  BY <1>1 DEF Active, Similar, Indeterminate, WEIGHTS
<1>8. Below(r)
  <2>1. m * 15 \in Int /\ m * 15 <= 150
    BY SMT
  <2> QED
    BY <1>3, <1>4, <1>5, <1>6, <1>7, <2>1, BelowSum
<1> QED
  BY <1>8 DEF Report, r

LEMMA ReportNext ==
  ASSUME ReportInv, [Next]_vars
  PROVE  ReportInv'
<1> USE DEF ReportInv, SameViewsAreTrusted, NoViewIsSuspect
<1>1. CASE ScannerNext /\ UNCHANGED report
  <2>1. report # {} => cli = "removed"
    OBVIOUS
  <2>2. cli # "removed"
    BY <1>1 DEF ScannerNext, ScanUrl, Page, Refuse, Allow, Launch, OpenContext, SetUp, Navigate,
         Settle, Snapshot, ShootHome, ShootFull, FollowCode, NoCode, Linked, NoDownload,
         Discard, Quarantine, QuarantineFails, CheckCloaking, OpenView, ReadNormal, ReadBot,
         CloseContext, CloseBrowser, DownloadBegins, DownloadEnds, AtStep, Main, Begin,
         Returned, MoveHome, MoveFull, MoveSample, WriteJson, ReplaceJson, MainFails,
         BrowserCrashes, RemoveContainer, Ended, Killed
  <2> QED
    BY <1>1, <2>1, <2>2
<1>2. CASE CompareSame
  <2>1. PICK shown \in Shows, titled \in BOOLEAN, moves \in BOOLEAN,
             misread \in SUBSET {"text", "brand"} :
        Compared(shown, misread = {},
                [png |-> Placed, html |-> FALSE,
                 picture |-> 10, wording |-> 10, source |-> 10,
                 title   |-> IF titled => Metadata /\ dom[0] THEN 10 ELSE 0,
                 url     |-> IF Metadata /\ ~moves THEN 10 ELSE 0,
                 text    |-> shown.text /\ "text" \notin misread,
                 brand   |-> IF "brand" \in misread THEN NoBrand ELSE shown.brand])
    BY <1>2 DEF CompareSame
  <2> DEFINE seen == [png |-> Placed, html |-> FALSE,
                      picture |-> 10, wording |-> 10, source |-> 10,
                      title   |-> IF titled => Metadata /\ dom[0] THEN 10 ELSE 0,
                      url     |-> IF Metadata /\ ~moves THEN 10 ELSE 0,
                      text    |-> shown.text /\ "text" \notin misread,
                      brand   |-> IF "brand" \in misread THEN NoBrand ELSE shown.brand]
             outcome == Report(Analyze(shown, seen))
  <2>2. seen \in Sights /\ (seen.png <=> Placed)
    <3>1. Placed \in BOOLEAN /\ shown.text \in BOOLEAN /\ shown.brand \in Brands \cup {NoBrand}
      BY DEF Placed, Shows
    <3>2. (shown.text /\ "text" \notin misread) \in BOOLEAN
      OBVIOUS
    <3> QED
      BY <3>1, <3>2 DEF Sights
  <2>3. Placed /\ misread = {} => ~outcome.cloaking_suspected
    BY <2>2, SameTrusted DEF Shows
  <2>4. ~Placed => outcome.cloaking_suspected
    BY <2>2, BlindSuspect
  <2>5. report' = {[same               |-> misread = {},
                    cloaking_suspected |-> outcome.cloaking_suspected,
                    reduced_confidence |-> outcome.reduced_confidence]}
    BY <2>1 DEF Compared
  <2>6. cli' = "removed" /\ (Placed' <=> Placed)
    BY <1>2 DEF CompareSame, scanner, process, page, Placed
  <2> DEFINE v == [same               |-> misread = {},
                   cloaking_suspected |-> outcome.cloaking_suspected,
                   reduced_confidence |-> outcome.reduced_confidence]
  <2>7. /\ report' = {v} /\ v.same = (misread = {})
        /\ v.cloaking_suspected = outcome.cloaking_suspected
    BY <2>5
  <2> HIDE DEF outcome, v, seen
  <2>8. /\ v.same /\ Placed => ~v.cloaking_suspected
        /\ ~Placed => v.cloaking_suspected
    BY <2>3, <2>4, <2>7
  <2>9. SameViewsAreTrusted'
    BY <2>6, <2>8, <2>7
  <2>10. NoViewIsSuspect'
    BY <2>6, <2>8, <2>7
  <2> QED
    BY <2>6, <2>9, <2>10
<1>3. CASE CompareOther
  <2>1. PICK shown \in Shows, seen \in Others : Compared(shown, FALSE, seen)
    BY <1>3 DEF CompareOther
  <2> DEFINE outcome == Report(Analyze(shown, seen))
  <2>2. seen \in Sights /\ (seen.png <=> Placed)
    <3>1. Placed \in BOOLEAN
      BY DEF Placed
    <3>2. /\ seen.png = Placed /\ seen.html = FALSE /\ seen.source = 0
          /\ seen.picture \in Likeness /\ seen.wording \in Likeness
          /\ seen.title \in Likeness /\ seen.url \in {0, 10}
          /\ seen.text \in BOOLEAN /\ seen.brand \in Brands \cup {NoBrand}
      BY DEF Others
    <3>3. /\ seen.picture \in 0 .. 10 /\ seen.wording \in 0 .. 10 /\ seen.source \in 0 .. 10
          /\ seen.title \in 0 .. 10 /\ seen.url \in 0 .. 10
      <4>1. \A x \in Likeness : x \in 0 .. 10
        BY EvidenceAssumption
      <4> QED
        BY <3>2, <4>1
    <3>4. seen = [png |-> seen.png, html |-> seen.html, picture |-> seen.picture,
                  wording |-> seen.wording, source |-> seen.source, title |-> seen.title,
                  url |-> seen.url, text |-> seen.text, brand |-> seen.brand]
      BY DEF Others
    <3>5. seen \in Sights
      BY <3>1, <3>2, <3>3, <3>4 DEF Sights
    <3> QED
      BY <3>2, <3>5
  <2>3. ~Placed => outcome.cloaking_suspected
    BY <2>2, BlindSuspect
  <2>4. report' = {[same               |-> FALSE,
                    cloaking_suspected |-> outcome.cloaking_suspected,
                    reduced_confidence |-> outcome.reduced_confidence]}
    BY <2>1 DEF Compared
  <2>5. cli' = "removed" /\ (Placed' <=> Placed)
    BY <1>3 DEF CompareOther, scanner, process, page, Placed
  <2> DEFINE v == [same               |-> FALSE,
                   cloaking_suspected |-> outcome.cloaking_suspected,
                   reduced_confidence |-> outcome.reduced_confidence]
  <2>6. /\ report' = {v} /\ v.same = FALSE
        /\ v.cloaking_suspected = outcome.cloaking_suspected
    BY <2>4
  <2> HIDE DEF outcome, v
  <2>7. /\ v.same /\ Placed => ~v.cloaking_suspected
        /\ ~Placed => v.cloaking_suspected
    BY <2>3, <2>6
  <2>9. SameViewsAreTrusted'
    BY <2>5, <2>7, <2>6
  <2>10. NoViewIsSuspect'
    BY <2>5, <2>7, <2>6
  <2> QED
    BY <2>5, <2>9, <2>10
<1>4. CASE UNCHANGED vars
  BY <1>4 DEF vars, scanner, process, page, Placed
<1> QED
  BY <1>1, <1>2, <1>3, <1>4 DEF Next

LEMMA ReportKept == Spec => []ReportInv
<1>1. Init => ReportInv
  BY DEF Init, ReportInv, SameViewsAreTrusted, NoViewIsSuspect
<1> QED
  BY <1>1, ReportNext, PTL DEF Spec

(* For any brands and likenesses, a page that shows both the same is       *)
(* trusted if the sandbox's screenshot is there and could be read.         *)
THEOREM SameViewsCorrect == Spec => []SameViewsAreTrusted
<1>1. ReportInv => SameViewsAreTrusted
  BY DEF ReportInv
<1> QED
  BY <1>1, ReportKept, PTL

(* For any brands and likenesses, a page that keeps the sandbox from       *)
(* taking its screenshot is suspected.                                     *)
THEOREM NoViewCorrect == Spec => []NoViewIsSuspect
<1>1. ReportInv => NoViewIsSuspect
  BY DEF ReportInv
<1> QED
  BY <1>1, ReportKept, PTL

-----------------------------------------------------------------------------
(* The egress proxy.                                                       *)

Conns == {"new", "routing", "aborted", "sent", "resolving", "dialling", "refused",
          "opened", "relaying", "closing", "done"}

Ends == {"none", "open", "ended", "gone", "closed"}

ProxyTypeOK == /\ stage \in [Requests -> Stages]
               /\ conn \in [Requests -> Conns] /\ server \in [Requests -> Ends]
               /\ up \in [Requests -> {"none", "some", "full", "closing"}]

(* A handler that has looked at its request holds its permit.              *)
Holding ==
  \A r \in Requests :
    conn[r] \in {"resolving", "dialling", "refused", "opened", "relaying", "closing"} =>
      stage[r] = "admitted"

(* A server's connection is that of a tunnel, one that the server keeps    *)
(* open by not reading, or one that no handler closes.                     *)
Tunnelled ==
  \A r \in Requests : server[r] \in {"open", "ended"} =>
    conn[r] \in {"opened", "relaying"} \/ up[r] = "closing" \/ r \in abandoned

ProxyInv == ProxyTypeOK /\ Holding /\ Tunnelled

(* The gate moves nobody who is in, but for the one who leaves.            *)
LEMMA GateHolds ==
  ASSUME ProxyTypeOK, NEW r \in Requests, Check(r) \/ Admit(r) \/ Release(r)
  PROVE  /\ stage' \in [Requests -> Stages]
         /\ \A q \in Requests : stage[q] = "admitted" => stage'[q] = "admitted" \/ (q = r /\ Release(r))
<1> USE DEF ProxyTypeOK, Stages
<1>1. CASE Check(r)
  BY <1>1 DEF Check
<1>2. CASE Acquire(r)
  BY <1>2 DEF Acquire
<1>3. CASE Resume(r)
  BY <1>3 DEF Resume, WakeNext
<1>4. CASE GiveUp(r)
  BY <1>4 DEF GiveUp, WakeNext
<1>5. CASE Release(r)
  BY <1>5 DEF Release, WakeNext
<1> QED
  BY <1>1, <1>2, <1>3, <1>4, <1>5 DEF Admit

LEMMA HandleKeeps ==
  ASSUME ProxyInv, NEW r \in Requests,
         \/ RouteHit(r) \/ RouteMiss(r) \/ RouteAnswer(r) \/ Bypass(r)
         \/ LookUpHit(r) \/ LookUpMiss(r) \/ LookUpAnswer(r) \/ NoRequest(r)
  PROVE  ProxyInv'
<1>1. /\ UNCHANGED <<stage, server, up, abandoned>>
      /\ \E c \in Conns : conn' = [conn EXCEPT ![r] = c]
  BY DEF RouteHit, RouteMiss, RouteAnswer, Routed, Bypass, LookUpHit, LookUpMiss,
         LookUpAnswer, Resolved, NoRequest, gate, pipes, Conns
<1>2. /\ conn[r] \in {"new", "routing", "sent", "resolving"}
      /\ conn'[r] \in {"routing", "sent", "aborted"} \/ stage[r] = "admitted"
  BY DEF RouteHit, RouteMiss, RouteAnswer, Routed, Bypass, LookUpHit, LookUpMiss,
         LookUpAnswer, Resolved, NoRequest, ProxyInv, ProxyTypeOK, Holding
<1>3. ProxyTypeOK'
  BY <1>1 DEF ProxyInv, ProxyTypeOK
<1>4. Holding'
  BY <1>1, <1>2 DEF ProxyInv, ProxyTypeOK, Holding
<1>5. Tunnelled'
  BY <1>1, <1>2 DEF ProxyInv, ProxyTypeOK, Tunnelled
<1> QED
  BY <1>3, <1>4, <1>5 DEF ProxyInv

LEMMA TunnelKeeps ==
  ASSUME ProxyInv, NEW r \in Requests,
         \/ Dial(r) \/ Splice(r) \/ SpliceFails(r) \/ UpStops(r) \/ DownStops(r) \/ Gathered(r)
         \/ Around(r)
  PROVE  ProxyInv'
<1> USE DEF ProxyInv, ProxyTypeOK, Holding, Tunnelled, gate, pipes, Conns, Ends
<1>1. CASE Dial(r)
  BY <1>1 DEF Dial
<1>2. CASE Splice(r) \/ SpliceFails(r)
  BY <1>2 DEF Splice, SpliceFails
<1>3. CASE UpStops(r)
  BY <1>3 DEF UpStops, CloseServer
<1>4. CASE Gathered(r)
  BY <1>4 DEF Gathered, UpDone
<1>5. CASE ServerEnds(r)
  BY <1>5 DEF ServerEnds
<1>6. CASE ServerGoes(r)
  BY <1>6 DEF ServerGoes
<1>7. CASE Collect(r)
  BY <1>7 DEF Collect
<1>8. CASE Stall(r)
  <2>1. UNCHANGED <<stage, conn, server, abandoned>>
    BY <1>8 DEF Stall
  <2>2. UNCHANGED up \/ \E b \in {"some", "full"} : up' = [up EXCEPT ![r] = b] /\ up[r] # "closing"
    BY <1>8 DEF Stall, UpDone
  <2> QED BY <2>1, <2>2
<1>9. CASE ServerReads(r)
  BY <1>9 DEF ServerReads
<1>10. CASE DownStops(r) \/ BrowserGoes(r) \/ BrowserReads(r)
  BY <1>10 DEF DownStops, BrowserGoes, BrowserReads
<1> QED
  BY <1>1, <1>2, <1>3, <1>4, <1>5, <1>6, <1>7, <1>8, <1>9, <1>10 DEF Around

LEMMA GateKeeps ==
  ASSUME ProxyInv, NEW r \in Requests, Accept(r) \/ PassGate(r) \/ Finish(r)
  PROVE  ProxyInv'
<1>1. CASE Accept(r) \/ PassGate(r)
  <2>1. Check(r) \/ Admit(r)
    BY <1>1 DEF Accept, PassGate
  <2>2. UNCHANGED <<conn, server, up, abandoned>>
    BY <1>1 DEF Accept, PassGate, relay, pipes
  <2>3. ~Release(r) \/ stage[r] = "admitted"
    BY DEF Release
  <2>4. stage[r] # "admitted"
    BY <2>1 DEF Check, Admit, Acquire, Resume, GiveUp
  <2> QED
    BY <2>1, <2>2, <2>3, <2>4, GateHolds DEF ProxyInv, ProxyTypeOK, Holding, Tunnelled
<1>2. CASE Finish(r)
  <2>1. /\ Release(r) /\ conn' = [conn EXCEPT ![r] = "done"]
        /\ conn[r] \in {"refused", "closing"} /\ UNCHANGED <<server, up, abandoned>>
    BY <1>2 DEF Finish, pipes
  <2> QED
    BY <2>1, GateHolds DEF ProxyInv, ProxyTypeOK, Holding, Tunnelled, Conns
<1> QED
  BY <1>1, <1>2

(* Every connection to the proxy goes through the gate as the requests of  *)
(* AdmissionGate do, and leaves it once: what is proved of the gate holds  *)
(* of the proxy.                                                           *)
THEOREM ProxyImplementsGate == ProxySpec => GateSpec
<1>1. ProxyInit => GateInit
  BY DEF ProxyInit
<1>2. [ProxyNext]_connections => [GateNext]_gate
  <2> SUFFICES ASSUME [ProxyNext]_connections, ~UNCHANGED gate
               PROVE  GateNext
    OBVIOUS
  <2>1. PICK r \in Requests : Accept(r) \/ PassGate(r) \/ Finish(r)
    BY DEF ProxyNext, connections, Handle, RouteHit, RouteMiss, RouteAnswer, Routed, Bypass,
           LookUpHit, LookUpMiss, LookUpAnswer, Resolved, NoRequest, Dial, Splice,
           SpliceFails, UpEnds, DownEnds, WriteFails, UpStops, DownStops, Gathered, Around,
           BrowserGoes, ServerEnds, ServerGoes, Collect, Stall, ServerReads, BrowserReads
  <2> QED
    BY <2>1 DEF Accept, PassGate, Finish, GateNext
<1> QED
  BY <1>1, <1>2, PTL DEF ProxySpec, GateSpec

LEMMA ProxyKept == ProxySpec => []ProxyInv
<1>1. ProxyInit => ProxyInv
  BY DEF ProxyInit, GateInit, ProxyInv, ProxyTypeOK, Holding, Tunnelled, Stages, Conns, Ends
<1>2. ProxyInv /\ [ProxyNext]_connections => ProxyInv'
  <2> SUFFICES ASSUME ProxyInv, [ProxyNext]_connections
               PROVE  ProxyInv'
    OBVIOUS
  <2>1. CASE UNCHANGED <<gate, relay, abandoned>>
    BY <2>1 DEF gate, relay, pipes, ProxyInv, ProxyTypeOK, Holding, Tunnelled
  <2> QED
    BY <2>1, HandleKeeps, TunnelKeeps, GateKeeps
       DEF ProxyNext, Handle, UpEnds, DownEnds, WriteFails, connections
<1> QED
  BY <1>1, <1>2, PTL DEF ProxySpec

(* However many connections there are, a server's connection outlives its  *)
(* permit only when the browser was gone before the tunnel was spliced, or *)
(* while the server does not read what the tunnel had left unsent.         *)
THEOREM ServersCorrect == ProxySpec => []ServersBounded
<1>1. ProxyInv => ServersBounded
  BY DEF ProxyInv, Holding, Tunnelled, ServersBounded
<1> QED
  BY <1>1, ProxyKept, PTL

-----------------------------------------------------------------------------
(* The DNS cache.                                                          *)

Entries == [host : Hosts, ips : Answers, left : Nat]

Distinct(s) == \A i, j \in DOMAIN s : s[i].host = s[j].host => i = j

CacheTypeOK == /\ dns \in Seq(Entries) /\ known \in [Hosts -> Nat]
               /\ asking \subseteq Requests /\ trusted \subseteq Requests
               /\ target \in [Requests -> Hosts]

(* What is known has an entry at least as fresh.                           *)
KnownOK ==
  \A h \in Hosts : known[h] > 0 =>
    \E k \in DOMAIN dns : dns[k].host = h /\ dns[k].ips # {} /\ dns[k].left >= known[h]

(* Who asks for a name that is known has been overtaken.                   *)
AskersOK == \A r \in asking \ overtaken : known[target[r]] = 0

CacheInv == CacheTypeOK /\ Distinct(dns) /\ KnownOK /\ AskersOK

LEMMA DomainIs ==
  ASSUME NEW s \in Seq(Entries)
  PROVE  Len(s) \in Nat /\ DOMAIN s = 1 .. Len(s) /\ \A k \in DOMAIN s : s[k] \in Entries
  OBVIOUS

(* The entry of a name is the one that is there.                           *)
LEMMA EntryIs ==
  ASSUME NEW s, Distinct(s), NEW k \in DOMAIN s
  PROVE  s[CHOOSE j \in DOMAIN s : s[j].host = s[k].host] = s[k]
  <1> DEFINE j == CHOOSE j \in DOMAIN s : s[j].host = s[k].host
  <1>1. j \in DOMAIN s /\ s[j].host = s[k].host
    OBVIOUS
  <1> QED BY <1>1 DEF Distinct

(* What is left when the entry k is taken out.                             *)
LEMMA AllButIs ==
  ASSUME dns \in Seq(Entries), Distinct(dns), NEW k \in DOMAIN dns,
         NEW t, t = AllBut(k)
  PROVE  /\ t \in Seq(Entries) /\ Distinct(t)
         /\ \A i \in DOMAIN t : \E j \in DOMAIN dns : j # k /\ t[i] = dns[j]
         /\ \A j \in DOMAIN dns : j # k => \E i \in DOMAIN t : t[i] = dns[j]
  <1> DEFINE from(i) == IF i < k THEN i ELSE i + 1
  <1>1. PICK n \in Nat : n = Len(dns) /\ DOMAIN dns = 1 .. n
    BY DomainIs
  <1>2. k \in 1 .. n /\ n - 1 \in Nat
    BY <1>1
  <1>3. /\ t = [i \in 1 .. (n - 1) |-> IF i < k THEN dns[i] ELSE dns[i + 1]]
        /\ DOMAIN t = 1 .. (n - 1)
        /\ \A i \in 1 .. (n - 1) : t[i] = IF i < k THEN dns[i] ELSE dns[i + 1]
    BY <1>1 DEF AllBut
  <1>4. ASSUME NEW i \in 1 .. (n - 1)
        PROVE  from(i) \in 1 .. n /\ from(i) # k /\ t[i] = dns[from(i)]
    BY <1>2, <1>3
  <1>5. ASSUME NEW i \in 1 .. (n - 1), NEW j \in 1 .. (n - 1), from(i) = from(j)
        PROVE  i = j
    BY <1>2, <1>5
  <1>6. ASSUME NEW j \in 1 .. n, j # k
        PROVE  \E i \in 1 .. (n - 1) : from(i) = j
    <2>1. CASE j < k
      <3>1. j \in 1 .. (n - 1) /\ from(j) = j
        BY <1>2, <2>1
      <3> QED BY <3>1
    <2>2. CASE ~(j < k)
      <3>1. j - 1 \in 1 .. (n - 1) /\ from(j - 1) = j
        BY <1>2, <1>6, <2>2
      <3> QED BY <3>1
    <2> QED BY <2>1, <2>2
  <1> HIDE DEF from
  <1>7. Distinct(t)
    <2> SUFFICES ASSUME NEW i \in 1 .. (n - 1), NEW j \in 1 .. (n - 1), t[i].host = t[j].host
                 PROVE  i = j
      BY <1>3 DEF Distinct
    <2>1. dns[from(i)].host = dns[from(j)].host /\ from(i) \in 1 .. n /\ from(j) \in 1 .. n
      BY <1>4
    <2>2. from(i) = from(j)
      BY <1>1, <2>1 DEF Distinct
    <2> QED BY <1>5, <2>2
  <1>8. \A i \in 1 .. (n - 1) : \E j \in 1 .. n : j # k /\ t[i] = dns[j]
    BY <1>4
  <1>9. \A j \in 1 .. n : j # k => \E i \in 1 .. (n - 1) : t[i] = dns[j]
    BY <1>4, <1>6
  <1>10. t \in Seq(Entries)
    <2>1. \A i \in 1 .. (n - 1) : t[i] \in Entries
      BY <1>1, <1>8, DomainIs
    <2>2. t \in [1 .. (n - 1) -> Entries]
      <3> HIDE DEF AllBut
      <3> QED BY <1>3, <2>1
    <2> QED BY <1>2, <2>2
  <1>11. DOMAIN t = 1 .. (n - 1) /\ DOMAIN dns = 1 .. n
    BY <1>1, <1>3
  <1>12. \A i \in DOMAIN t : \E j \in DOMAIN dns : j # k /\ t[i] = dns[j]
    BY <1>8, <1>11, Zenon
  <1>13. \A j \in DOMAIN dns : j # k => \E i \in DOMAIN t : t[i] = dns[j]
    BY <1>9, <1>11, Zenon
  <1> QED BY <1>7, <1>10, <1>12, <1>13, Zenon

LEMMA AppendIs ==
  ASSUME NEW s \in Seq(Entries), Distinct(s), NEW e \in Entries,
         \A i \in DOMAIN s : s[i].host # e.host
  PROVE  /\ Append(s, e) \in Seq(Entries) /\ Distinct(Append(s, e))
         /\ \E k \in DOMAIN Append(s, e) : Append(s, e)[k] = e
         /\ \A i \in DOMAIN s : i \in DOMAIN Append(s, e) /\ Append(s, e)[i] = s[i]
  <1>1. Len(s) \in Nat /\ DOMAIN s = 1 .. Len(s)
    BY DomainIs
  <1>2. Append(s, e) \in Seq(Entries) /\ DOMAIN Append(s, e) = 1 .. Len(s) + 1
    BY <1>1
  <1>3. /\ Append(s, e)[Len(s) + 1] = e
        /\ \A i \in 1 .. Len(s) : Append(s, e)[i] = s[i]
    BY <1>1
  <1>4. \A i \in 1 .. Len(s) + 1 : i \in 1 .. Len(s) \/ i = Len(s) + 1
    BY <1>1
  <1>5. Distinct(Append(s, e))
    BY <1>1, <1>2, <1>3, <1>4 DEF Distinct
  <1> QED BY <1>1, <1>2, <1>3, <1>5

LEMMA RoomIs ==
  ASSUME dns \in Seq(Entries), Distinct(dns), NEW h \in Hosts
  PROVE  /\ Room(h) \in Seq(Entries) /\ Distinct(Room(h))
         /\ \A i \in DOMAIN Room(h) : Room(h)[i].host # h
         /\ \A j \in DOMAIN dns : dns[j].host \notin Evicted(h) /\ dns[j].host # h =>
              \E i \in DOMAIN Room(h) : Room(h)[i] = dns[j]
  <1>1. CASE Has(h)
    <2>1. PICK k \in DOMAIN dns : k = Place(h) /\ dns[k].host = h
      BY <1>1 DEF Has, Place
    <2>2. PICK t : t = AllBut(k)
      OBVIOUS
    <2>3. Room(h) = t
      BY <1>1, <2>1, <2>2 DEF Room
    <2>4. \A j \in DOMAIN dns : j # k => dns[j].host # h
      BY <2>1 DEF Distinct
    <2>5. /\ t \in Seq(Entries) /\ Distinct(t)
          /\ \A i \in DOMAIN t : \E j \in DOMAIN dns : j # k /\ t[i] = dns[j]
          /\ \A j \in DOMAIN dns : j # k => \E i \in DOMAIN t : t[i] = dns[j]
      BY <2>2, AllButIs
    <2>6. \A j \in DOMAIN dns : dns[j].host # h => \E i \in DOMAIN t : t[i] = dns[j]
      BY <2>1, <2>5
    <2> QED BY <2>3, <2>4, <2>5, <2>6
  <1>2. CASE ~Has(h) /\ Len(dns) < MaxEntries
    <2>1. Room(h) = dns /\ \A i \in DOMAIN dns : dns[i].host # h
      BY <1>2 DEF Room, Has
    <2> QED BY <2>1
  <1>3. CASE ~Has(h) /\ ~(Len(dns) < MaxEntries)
    <2>1. 1 \in DOMAIN dns
      BY <1>3, CacheAssumption, DomainIs
    <2>2. PICK t : t = AllBut(1)
      OBVIOUS
    <2>3. Room(h) = t /\ Evicted(h) = {dns[1].host} /\ \A i \in DOMAIN dns : dns[i].host # h
      BY <1>3, <2>2 DEF Room, Evicted, Has
    <2>4. /\ t \in Seq(Entries) /\ Distinct(t)
          /\ \A i \in DOMAIN t : \E j \in DOMAIN dns : j # 1 /\ t[i] = dns[j]
          /\ \A j \in DOMAIN dns : j # 1 => \E i \in DOMAIN t : t[i] = dns[j]
      BY <2>1, <2>2, AllButIs
    <2>5. \A j \in DOMAIN dns : dns[j].host \notin {dns[1].host} => \E i \in DOMAIN t : t[i] = dns[j]
      BY <2>4
    <2> QED BY <2>3, <2>4, <2>5
  <1> QED BY <1>1, <1>2, <1>3

(* The cache after e has been stored, or found and moved to the end.       *)
LEMMA Stored ==
  ASSUME dns \in Seq(Entries), Distinct(dns), NEW h \in Hosts,
         NEW e \in Entries, e.host = h, dns' = Append(Room(h), e)
  PROVE  /\ dns' \in Seq(Entries) /\ Distinct(dns')
         /\ \E k \in DOMAIN dns' : dns'[k] = e
         /\ \A j \in DOMAIN dns : dns[j].host \notin Evicted(h) /\ dns[j].host # h =>
              \E i \in DOMAIN dns' : dns'[i] = dns[j]
  <1>1. PICK s : s = Room(h)
    OBVIOUS
  <1>2. PICK t : t = dns'
    OBVIOUS
  <1>3. /\ s \in Seq(Entries) /\ Distinct(s)
        /\ \A i \in DOMAIN s : s[i].host # e.host
    BY <1>1, RoomIs
  <1>4. t = Append(s, e)
    BY <1>1, <1>2
  <1>5. /\ t \in Seq(Entries) /\ Distinct(t)
        /\ \E k \in DOMAIN t : t[k] = e
        /\ \A i \in DOMAIN s : i \in DOMAIN t /\ t[i] = s[i]
    BY <1>3, <1>4, AppendIs
  <1>6. \A j \in DOMAIN dns : dns[j].host \notin Evicted(h) /\ dns[j].host # h =>
          \E i \in DOMAIN s : s[i] = dns[j]
    BY <1>1, RoomIs
  <1>7. \A j \in DOMAIN dns : dns[j].host \notin Evicted(h) /\ dns[j].host # h =>
          \E i \in DOMAIN t : t[i] = dns[j]
    BY <1>5, <1>6
  <1> QED BY <1>2, <1>5, <1>7

(* The entry of a name that is known.                                      *)
LEMMA KnownIs ==
  ASSUME CacheInv, NEW h \in Hosts, known[h] > 0
  PROVE  Fresh(h) /\ Entry(h).ips # {} /\ Entry(h).left >= known[h]
  <1>1. PICK k \in DOMAIN dns : dns[k].host = h /\ dns[k].ips # {} /\ dns[k].left >= known[h]
    BY DEF CacheInv, KnownOK
  <1>2. Has(h) /\ Entry(h) = dns[k]
    <2>1. Distinct(dns)
      BY DEF CacheInv
    <2>2. dns[CHOOSE j \in DOMAIN dns : dns[j].host = dns[k].host] = dns[k]
      BY <2>1, EntryIs
    <2> QED BY <1>1, <2>2 DEF Has, Entry, Place
  <1>3. dns[k].left \in Nat /\ known[h] \in Nat
    BY DomainIs DEF CacheInv, CacheTypeOK, Entries
  <1> QED BY <1>1, <1>2, <1>3 DEF Fresh

LEMMA HitKeeps ==
  ASSUME CacheInv, NEW h \in Hosts, Hit(h), UNCHANGED target, trusted' \subseteq Requests
  PROVE  CacheInv' /\ \E k \in DOMAIN dns' : dns'[k] = Entry(h) /\ Entry(h).host = h
  <1>1. dns \in Seq(Entries) /\ Distinct(dns) /\ Has(h)
    BY DEF CacheInv, CacheTypeOK, Hit, Fresh
  <1>2. PICK p \in DOMAIN dns : p = Place(h) /\ dns[p].host = h /\ Entry(h) = dns[p]
    BY <1>1 DEF Has, Place, Entry
  <1>3. dns[p] \in Entries /\ dns' = Append(Room(h), dns[p]) /\ Evicted(h) = {}
    BY <1>1, <1>2, DomainIs DEF Hit, Room, Evicted
  <1>4. /\ dns' \in Seq(Entries) /\ Distinct(dns')
        /\ \E k \in DOMAIN dns' : dns'[k] = dns[p]
        /\ \A j \in DOMAIN dns : dns[j].host # h => \E i \in DOMAIN dns' : dns'[i] = dns[j]
    BY <1>1, <1>2, <1>3, Stored
  <1>5. \A j \in DOMAIN dns : \E i \in DOMAIN dns' : dns'[i] = dns[j]
    BY <1>1, <1>2, <1>4 DEF Distinct
  <1>6. KnownOK'
    <2> SUFFICES ASSUME NEW g \in Hosts, known[g] > 0
                 PROVE  \E k \in DOMAIN dns' : /\ dns'[k].host = g /\ dns'[k].ips # {}
                                               /\ dns'[k].left >= known[g]
      BY DEF KnownOK, Hit
    <2>1. PICK j \in DOMAIN dns : dns[j].host = g /\ dns[j].ips # {} /\ dns[j].left >= known[g]
      BY DEF CacheInv, KnownOK
    <2> QED BY <1>5, <2>1
  <1>7. AskersOK' /\ CacheTypeOK'
    BY <1>4 DEF CacheInv, AskersOK, CacheTypeOK, Hit
  <1> QED BY <1>2, <1>4, <1>6, <1>7 DEF CacheInv

LEMMA MissKeeps ==
  ASSUME CacheInv, NEW r \in Requests, Miss(r, target[r]), UNCHANGED <<target, trusted>>
  PROVE  CacheInv'
  <1>1. target[r] \in Hosts /\ known[target[r]] \in Nat
    BY DEF CacheInv, CacheTypeOK
  <1>2. known[target[r]] = 0
    BY <1>1, KnownIs DEF Miss
  <1> QED BY <1>2 DEF CacheInv, CacheTypeOK, KnownOK, AskersOK, Miss

(* An answer that is not a success leaves its name unknown: the caller was *)
(* overtaken by what was known, or nothing was.                            *)
LEMMA StoreKeeps ==
  ASSUME CacheInv, NEW r \in Requests, NEW ips \in Answers,
         Store(r, target[r], ips, Rivals(r)), UNCHANGED target, trusted' \subseteq Requests
  PROVE  /\ CacheInv'
         /\ ips = {} => known'[target[r]] = 0
         /\ \E k \in DOMAIN dns' : dns'[k].host = target[r] /\ dns'[k].ips = ips
  <1>1. PICK h \in Hosts : h = target[r]
    BY DEF CacheInv, CacheTypeOK
  <1>2. PICK e \in Entries : e = [host |-> h, ips |-> ips, left |-> Lifetime(ips)]
    <2>1. Lifetime(ips) \in Nat
      BY CacheAssumption DEF Lifetime
    <2>2. [host |-> h, ips |-> ips, left |-> Lifetime(ips)] \in Entries
      BY <2>1 DEF Entries
    <2> QED BY <2>2
  <1>3. dns \in Seq(Entries) /\ Distinct(dns) /\ known \in [Hosts -> Nat]
    BY DEF CacheInv, CacheTypeOK
  <1>4. dns' = Append(Room(h), e) /\ e.host = h /\ e.ips = ips /\ (ips # {} => e.left = Ttl)
    BY <1>1, <1>2 DEF Store, Lifetime
  <1>5. /\ dns' \in Seq(Entries) /\ Distinct(dns')
        /\ \E k \in DOMAIN dns' : dns'[k] = e
        /\ \A j \in DOMAIN dns : dns[j].host \notin Evicted(h) /\ dns[j].host # h =>
             \E i \in DOMAIN dns' : dns'[i] = dns[j]
    BY <1>3, <1>4, Stored
  <1>6. h \notin Evicted(h)
    BY <1>3, DomainIs, CacheAssumption DEF Evicted, Has
  <1>7. /\ known' \in [Hosts -> Nat]
        /\ known'[h] = IF ips = {} THEN 0 ELSE Ttl
        /\ \A g \in Hosts \ {h} : known'[g] = IF g \in Evicted(h) THEN 0 ELSE known[g]
    <2>1. known' = [g \in Hosts |->
             CASE g \in Evicted(h)                         -> 0
               [] g = h /\ ips # {}                        -> Ttl
               [] g = h /\ ips = {} /\ r \in overtaken     -> 0
               [] OTHER                                    -> known[g]]
      BY <1>1 DEF Store
    <2>2. ips = {} /\ r \notin overtaken => known[h] = 0
      BY <1>1 DEF CacheInv, AskersOK, Store
    <2>3. known' \in [Hosts -> Nat]
      BY <1>3, <2>1, CacheAssumption
    <2>4. known'[h] = IF ips = {} THEN 0 ELSE Ttl
      BY <1>6, <2>1, <2>2
    <2>5. \A g \in Hosts \ {h} : known'[g] = IF g \in Evicted(h) THEN 0 ELSE known[g]
      BY <2>1
    <2> QED BY <2>3, <2>4, <2>5
  <1>8. KnownOK'
    <2> SUFFICES ASSUME NEW g \in Hosts, known'[g] > 0
                 PROVE  \E k \in DOMAIN dns' : /\ dns'[k].host = g /\ dns'[k].ips # {}
                                               /\ dns'[k].left >= known'[g]
      BY DEF KnownOK
    <2>1. CASE g = h
      <3>1. ips # {} /\ known'[g] = Ttl
        BY <1>7, <2>1
      <3> QED BY <1>4, <1>5, <2>1, <3>1, CacheAssumption
    <2>2. CASE g # h
      <3>1. g \notin Evicted(h) /\ known'[g] = known[g]
        BY <1>7, <2>2
      <3>2. PICK j \in DOMAIN dns : dns[j].host = g /\ dns[j].ips # {} /\ dns[j].left >= known[g]
        BY <3>1 DEF CacheInv, KnownOK
      <3> QED BY <1>5, <2>2, <3>1, <3>2
    <2> QED BY <2>1, <2>2
  <1>9. AskersOK'
    <2> SUFFICES ASSUME NEW q \in asking' \ overtaken'
                 PROVE  known'[target[q]] = 0
      BY DEF AskersOK
    <2>1. q \in asking /\ q # r /\ q \notin overtaken /\ q \in Requests
      BY DEF Store, CacheInv, CacheTypeOK
    <2>2. known[target[q]] = 0 /\ target[q] \in Hosts
      BY <2>1 DEF CacheInv, AskersOK, CacheTypeOK
    <2>3. CASE target[q] = h
      <3>1. ips = {}
        BY <1>1, <2>1, <2>3 DEF Store, Rivals
      <3> QED BY <1>7, <2>3, <3>1
    <2>4. CASE target[q] # h
      BY <1>7, <2>2, <2>4
    <2> QED BY <2>3, <2>4
  <1>10. CacheTypeOK'
    BY <1>5, <1>7 DEF CacheInv, CacheTypeOK, Store
  <1> QED BY <1>1, <1>4, <1>5, <1>7, <1>8, <1>9, <1>10 DEF CacheInv

LEMMA TickKeeps ==
  ASSUME CacheInv, Tick, UNCHANGED <<target, trusted>>
  PROVE  CacheInv'
  <1>1. PICK n \in Nat : n = Len(dns) /\ DOMAIN dns = 1 .. n
    BY DomainIs DEF CacheInv, CacheTypeOK
  <1>2. \A k \in 1 .. n : dns[k] \in Entries
    BY <1>1, DomainIs DEF CacheInv, CacheTypeOK
  <1>3. dns' = [k \in 1 .. n |-> [dns[k] EXCEPT !.left = Minus1(@)]]
    BY <1>1 DEF Tick
  <1>4. \A k \in 1 .. n : /\ dns'[k] \in Entries
                          /\ dns'[k].host = dns[k].host /\ dns'[k].ips = dns[k].ips
                          /\ dns'[k].left = Minus1(dns[k].left)
    BY <1>2, <1>3 DEF Entries, Minus1
  <1>5. DOMAIN dns' = 1 .. n /\ dns' \in Seq(Entries)
    <2>1. dns' \in [1 .. n -> Entries]
      BY <1>3, <1>4
    <2> QED BY <2>1
  <1>6. Distinct(dns')
    BY <1>1, <1>4, <1>5 DEF CacheInv, Distinct
  <1>7. /\ known' \in [Hosts -> Nat]
        /\ \A h \in Hosts : known[h] \in Nat /\ known'[h] = Minus1(known[h])
    BY DEF CacheInv, CacheTypeOK, Tick, Minus1
  <1>8. KnownOK'
    <2> SUFFICES ASSUME NEW h \in Hosts, known'[h] > 0
                 PROVE  \E k \in DOMAIN dns' : /\ dns'[k].host = h /\ dns'[k].ips # {}
                                               /\ dns'[k].left >= known'[h]
      BY DEF KnownOK
    <2>1. known[h] > 0 /\ known'[h] = known[h] - 1
      BY <1>7 DEF Minus1
    <2>2. PICK k \in 1 .. n : dns[k].host = h /\ dns[k].ips # {} /\ dns[k].left >= known[h]
      BY <1>1, <2>1 DEF CacheInv, KnownOK
    <2>3. dns'[k].left >= known'[h]
      BY <1>2, <1>4, <1>7, <2>1, <2>2 DEF Minus1, Entries
    <2> QED BY <1>4, <1>5, <2>2, <2>3
  <1>9. AskersOK'
    BY <1>7 DEF CacheInv, CacheTypeOK, AskersOK, Tick, Minus1
  <1> QED BY <1>5, <1>6, <1>7, <1>8, <1>9 DEF CacheInv, CacheTypeOK, Tick

(* Each step of the proxy is one step of the cache, or none.               *)
LEMMA CacheKept == CacheInv /\ [ProxyNext]_connections => CacheInv'
<1> SUFFICES ASSUME CacheInv, [ProxyNext]_connections
             PROVE  CacheInv'
  OBVIOUS
<1>1. CASE UNCHANGED <<cached, target, trusted>>
  BY <1>1 DEF cached, CacheInv, CacheTypeOK, Distinct, KnownOK, AskersOK
<1>2. CASE Tick /\ UNCHANGED <<target, trusted>>
  BY <1>2, TickKeeps
<1>3. ASSUME NEW r \in Requests, UNCHANGED target, RouteHit(r) \/ LookUpHit(r)
      PROVE  CacheInv'
  <2>1. target[r] \in Hosts /\ trusted' \subseteq Requests /\ Hit(target[r])
    BY <1>3 DEF CacheInv, CacheTypeOK, RouteHit, Routed, LookUpHit, Resolved
  <2> QED BY <1>3, <2>1, HitKeeps
<1>4. ASSUME NEW r \in Requests, UNCHANGED target, RouteMiss(r) \/ LookUpMiss(r)
      PROVE  CacheInv'
  BY <1>4, MissKeeps DEF RouteMiss, LookUpMiss
<1>5. ASSUME NEW r \in Requests, UNCHANGED target, RouteAnswer(r) \/ LookUpAnswer(r)
      PROVE  CacheInv'
  <2>1. PICK ips \in Answers : Store(r, target[r], ips, Rivals(r)) /\ (Routed(r, ips) \/ Resolved(r, ips))
    BY <1>5 DEF RouteAnswer, LookUpAnswer
  <2>2. trusted' \subseteq Requests
    BY <2>1 DEF CacheInv, CacheTypeOK, Routed, Resolved
  <2> QED BY <1>5, <2>1, <2>2, StoreKeeps
<1>6. CASE UNCHANGED connections
  BY <1>1, <1>6 DEF connections
<1>7. CASE ProxyNext
  <2>1. CASE Tick /\ UNCHANGED <<gate, relay, trusted, abandoned>>
    BY <1>2, <1>7, <2>1 DEF ProxyNext
  <2>2. ASSUME NEW r \in Requests,
               \/ Bypass(r) \/ Accept(r) \/ PassGate(r) \/ NoRequest(r) \/ Dial(r) \/ Splice(r)
               \/ SpliceFails(r) \/ UpStops(r) \/ DownStops(r) \/ Gathered(r) \/ Finish(r)
               \/ Around(r)
        PROVE  UNCHANGED <<cached, trusted>>
    BY <2>2 DEF Bypass, Accept, PassGate, NoRequest, Dial, Splice, SpliceFails, UpStops, DownStops,
                Gathered, Finish, Around, BrowserGoes, ServerEnds, ServerGoes, Collect, Stall,
                ServerReads, BrowserReads
  <2> QED BY <1>1, <1>3, <1>4, <1>5, <1>7, <2>1, <2>2
          DEF ProxyNext, Handle, UpEnds, DownEnds, WriteFails
<1> QED BY <1>6, <1>7

(* A request that the route handler let pass is refused by the proxy only  *)
(* when what it passed on is no longer known, however many lookups of its  *)
(* name are under way, and in whatever order they return.                  *)
THEOREM PassedCorrect == ProxySpec => PassedIsServed
<1>1. ProxyInit => CacheInv
  BY ProxyAssumption DEF ProxyInit, CacheInit, CacheInv, CacheTypeOK, Distinct, KnownOK, AskersOK
<1>2. CacheInv /\ ProxyInv /\ [ProxyNext]_connections =>
        [\A r \in trusted : (conn'[r] = "refused" /\ conn[r] # "refused") =>
            known'[target[r]] = 0 \/ Entry(target[r])'.ips = {"blocked"}]_connections
  <2> SUFFICES ASSUME CacheInv, CacheInv', ProxyInv, ProxyNext, NEW r \in trusted,
                      conn'[r] = "refused", conn[r] # "refused"
               PROVE  known'[target[r]] = 0 \/ Entry(target[r])'.ips = {"blocked"}
    BY CacheKept
  <2>1. r \in Requests /\ target[r] \in Hosts /\ UNCHANGED target
    BY DEF CacheInv, CacheTypeOK, ProxyNext
  <2>2. LookUpHit(r) \/ LookUpAnswer(r)
    <3>1. r \in DOMAIN conn
      BY <2>1 DEF ProxyInv, ProxyTypeOK
    <3>2. ASSUME NEW q \in Requests, NEW to, to # "refused" \/ q # r,
                 conn' = [conn EXCEPT ![q] = to]
          PROVE  FALSE
      BY <3>1, <3>2
    <3>3. CASE UNCHANGED conn
      BY <3>3
    <3>4. ASSUME NEW q \in Requests,
                 \/ RouteHit(q) \/ RouteMiss(q) \/ RouteAnswer(q) \/ Bypass(q) \/ LookUpMiss(q)
                 \/ NoRequest(q) \/ Dial(q) \/ Splice(q) \/ SpliceFails(q) \/ Gathered(q) \/ Finish(q)
          PROVE  \E to : to # "refused" /\ conn' = [conn EXCEPT ![q] = to]
      <4>1. ASSUME NEW ips, Routed(q, ips)
            PROVE  \E to : to # "refused" /\ conn' = [conn EXCEPT ![q] = to]
        BY <4>1 DEF Routed
      <4> QED BY <3>4, <4>1 DEF RouteHit, RouteMiss, RouteAnswer, Bypass, LookUpMiss, NoRequest,
                                Dial, Splice, SpliceFails, Gathered, Finish
    <3>5. ASSUME NEW q \in Requests, q # r, LookUpHit(q) \/ LookUpAnswer(q)
          PROVE  FALSE
      BY <3>2, <3>5 DEF LookUpHit, LookUpAnswer, Resolved
    <3>6. ASSUME NEW q \in Requests,
                 \/ Accept(q) \/ PassGate(q) \/ UpStops(q) \/ DownStops(q) \/ Around(q)
          PROVE  UNCHANGED conn
      BY <3>6 DEF Accept, PassGate, UpStops, DownStops, Around, BrowserGoes, ServerEnds,
                  ServerGoes, Collect, Stall, ServerReads, BrowserReads, relay
    <3>7. Tick /\ UNCHANGED <<gate, relay, trusted, abandoned>> => UNCHANGED conn
      BY DEF relay
    <3> QED BY <3>2, <3>3, <3>4, <3>5, <3>6, <3>7
            DEF ProxyNext, Handle, UpEnds, DownEnds, WriteFails
  <2>3. ASSUME NEW ips \in Answers, Resolved(r, ips)
        PROVE  ips = {} \/ ips = {"blocked"}
    <3>1. "public" \notin ips
      BY <2>1, <2>3 DEF Resolved, Validated, ProxyInv, ProxyTypeOK
    <3>2. ips \subseteq {"public", "blocked"}
      BY CacheAssumption
    <3> QED BY <3>1, <3>2
  <2>4. ASSUME NEW k \in DOMAIN dns', dns'[k].host = target[r]
        PROVE  Entry(target[r])' = dns'[k]
    <3>1. PICK s : s = dns'
      OBVIOUS
    <3>2. Distinct(s) /\ k \in DOMAIN s /\ s[k].host = target[r]
      BY <2>4, <3>1 DEF CacheInv
    <3>3. s[CHOOSE j \in DOMAIN s : s[j].host = s[k].host] = s[k]
      BY <3>2, EntryIs
    <3> QED BY <2>1, <3>1, <3>2, <3>3 DEF Entry, Place
  <2>5. CASE LookUpHit(r)
    <3>1. Hit(target[r]) /\ Resolved(r, Entry(target[r]).ips) /\ UNCHANGED trusted
      BY <2>5 DEF LookUpHit, Resolved
    <3>2. \E k \in DOMAIN dns' : dns'[k] = Entry(target[r]) /\ Entry(target[r]).host = target[r]
      BY <2>1, <3>1, HitKeeps DEF CacheInv, CacheTypeOK
    <3>3. Entry(target[r])' = Entry(target[r])
      BY <2>4, <3>2
    <3>4. Entry(target[r]).ips \in Answers
      <4>1. PICK k \in DOMAIN dns' : dns'[k] = Entry(target[r])
        BY <3>2
      <4>2. dns'[k] \in Entries
        BY <4>1, DomainIs DEF CacheInv, CacheTypeOK
      <4> QED BY <4>1, <4>2 DEF Entries
    <3>5. Entry(target[r]).ips = {} => known'[target[r]] = 0
      BY <2>1, <3>1, KnownIs DEF Hit, CacheInv, CacheTypeOK
    <3> QED BY <2>3, <3>1, <3>3, <3>4, <3>5
  <2>6. CASE LookUpAnswer(r)
    <3>1. PICK ips \in Answers : Store(r, target[r], ips, Rivals(r)) /\ Resolved(r, ips)
      BY <2>6 DEF LookUpAnswer
    <3>2. /\ ips = {} => known'[target[r]] = 0
          /\ \E k \in DOMAIN dns' : dns'[k].host = target[r] /\ dns'[k].ips = ips
      BY <2>1, <3>1, StoreKeeps DEF Resolved, CacheInv, CacheTypeOK
    <3>3. Entry(target[r])'.ips = ips
      BY <2>4, <3>2
    <3> QED BY <2>3, <3>1, <3>2, <3>3
  <2> QED BY <2>2, <2>5, <2>6
<1>3. ProxySpec => []ProxyInv
  BY ProxyKept
<1> QED
  BY <1>1, <1>2, <1>3, CacheKept, PTL DEF ProxySpec, PassedIsServed
=============================================================================
