-------------------------------- MODULE Scanner --------------------------------
(***************************************************************************)
(* One run of the scanner in its container                                 *)
(* (sandbox/backend/phishing_sandbox_scan.py): main, the egress proxy it   *)
(* starts, and scan_url, which calls itself for the URL of a QR code it    *)
(* finds on the page.  A scan is named by its depth, 0 for the URL of the  *)
(* command line.                                                           *)
(*                                                                         *)
(* The process is one coroutine: what interleaves with it is the page,     *)
(* whose downloads come when they like, a browser that crashes, and the    *)
(* end of the container.  A step that the code guards by a try of its own  *)
(* may fail at any time; other failures are counted.  The credential probe *)
(* and --allow-private-targets are not used by the service.                *)
(***************************************************************************)
EXTENDS Naturals

CONSTANTS
  MaxDepth,     \* max_qr_recursion_depth
  MaxFaults     \* bound on the number of faults

ASSUME ScannerAssumption == MaxDepth \in Nat /\ MaxFaults \in Nat

Depths == 0 .. MaxDepth

VARIABLES
  cli,        \* where main is
  proxy,      \* the egress proxy
  browser,    \* Chromium
  contexts,   \* the open contexts of the browser: <<depth, use>>
  at,         \* where each scan is
  ended,      \* how it ended
  nav,        \* whether the navigation was answered
  dom,        \* whether the page's content was captured
  home, full, \* where the two screenshots are
  sample,     \* the file the page makes the browser download: where it is, or that
              \* its move to the quarantine failed ("lost")
  row,        \* whether the result has a row for it, and the row names a file
  cloaking,   \* what check_cloaking found
  json,       \* scan_<id>.json in the shared directory
  faults      \* number of faults so far

page    == <<nav, dom, home, full, cloaking>>
loot    == <<sample, row>>
process == <<cli, proxy, json>>
scanner == <<process, browser, contexts, at, ended, page, loot, faults>>

AtStep(d, step) == cli = "scanning" /\ at[d] = step
Goto(d, step)   == at' = [at EXCEPT ![d] = step]
Fault           == faults < MaxFaults /\ faults' = faults + 1

(* The exception leaves through the finally clauses from `step` on.        *)
Raise(d, step) == /\ Goto(d, step)
                  /\ ended' = [ended EXCEPT ![d] = "raised"]

(* An unguarded call raises: the browser has crashed, or it is a fault.    *)
Raises == \/ browser = "crashed" /\ UNCHANGED faults
          \/ Fault

Works == browser = "open" /\ UNCHANGED faults

-----------------------------------------------------------------------------
(* scan_url, up to the page.                                               *)

Refuse(d) ==
  /\ AtStep(d, "check")
  /\ Goto(d, "over")
  /\ ended' = [ended EXCEPT ![d] = "refused"]
  /\ UNCHANGED <<process, browser, contexts, page, loot, faults>>

(* A linked scan is lent the browser.                                      *)
Owns(d) == d = 0

Allow(d) ==
  /\ AtStep(d, "check")
  /\ Goto(d, IF Owns(d) THEN "launch" ELSE "context")
  /\ UNCHANGED <<process, browser, contexts, ended, page, loot, faults>>

Launch(d) ==
  /\ AtStep(d, "launch")
  /\ \/ browser' = "open" /\ Goto(d, "context") /\ UNCHANGED <<ended, faults>>
     \/ Raise(d, "over") /\ Fault /\ UNCHANGED browser
  /\ UNCHANGED <<process, contexts, page, loot>>

OpenContext(d) ==
  /\ AtStep(d, "context")
  /\ \/ contexts' = contexts \cup {<<d, "page">>} /\ Goto(d, "setup") /\ Works /\ UNCHANGED ended
     \/ Raise(d, "browser") /\ Raises /\ UNCHANGED contexts
  /\ UNCHANGED <<process, browser, page, loot>>

(* The stealth and init scripts, the route, the page, the CDP session.     *)
SetUp(d) ==
  /\ AtStep(d, "setup")
  /\ \/ Goto(d, "goto") /\ Works /\ UNCHANGED ended
     \/ Raise(d, "close") /\ Raises
  /\ UNCHANGED <<process, browser, contexts, page, loot>>

Navigate(d) ==
  /\ AtStep(d, "goto")
  /\ \E answered \in BOOLEAN : /\ answered => browser = "open"
                               /\ nav' = [nav EXCEPT ![d] = answered]
  /\ Goto(d, "settle")
  /\ UNCHANGED <<process, browser, contexts, ended, dom, home, full, cloaking, loot, faults>>

(* The challenge, the simulated human (which raises nothing) and a second. *)
Settle(d) ==
  /\ AtStep(d, "settle")
  /\ \/ Goto(d, "snapshot") /\ Works /\ UNCHANGED ended
     \/ Raise(d, "close") /\ Raises
  /\ UNCHANGED <<process, browser, contexts, page, loot>>

-----------------------------------------------------------------------------
(* The evidence.                                                           *)

Snapshot(d) ==
  /\ AtStep(d, "snapshot")
  /\ \E captured \in BOOLEAN : /\ captured => browser = "open"
                               /\ dom' = [dom EXCEPT ![d] = captured]
  /\ Goto(d, "home")
  /\ UNCHANGED <<process, browser, contexts, ended, nav, home, full, cloaking, loot, faults>>

Shot == {"none"} \cup IF browser = "open" THEN {"tmp"} ELSE {}

ShootHome(d) ==
  /\ AtStep(d, "home")
  /\ \E s \in Shot : home' = [home EXCEPT ![d] = s]
  /\ Goto(d, "full")
  /\ UNCHANGED <<process, browser, contexts, ended, nav, dom, full, cloaking, loot, faults>>

ShootFull(d) ==
  /\ AtStep(d, "full")
  /\ \E s \in Shot : full' = [full EXCEPT ![d] = s]
  /\ Goto(d, "qr")
  /\ UNCHANGED <<process, browser, contexts, ended, nav, dom, home, cloaking, loot, faults>>

(* detect_qr: the first URL is scanned too, in the same browser.           *)
FollowCode(d) ==
  /\ AtStep(d, "qr")
  /\ full[d] = "tmp" /\ d < MaxDepth
  /\ at' = [at EXCEPT ![d] = "linked", ![d + 1] = "check"]
  /\ UNCHANGED <<process, browser, contexts, ended, page, loot, faults>>

NoCode(d) ==
  /\ AtStep(d, "qr")
  /\ Goto(d, "downloads")
  /\ UNCHANGED <<process, browser, contexts, ended, page, loot, faults>>

(* An exception of the linked scan is one of this scan.                    *)
Linked(d) ==
  /\ AtStep(d, "linked") /\ at[d + 1] = "over"
  /\ IF ended[d + 1] = "raised" THEN Raise(d, "close")
                                ELSE Goto(d, "downloads") /\ UNCHANGED ended
  /\ UNCHANGED <<process, browser, contexts, page, loot, faults>>

-----------------------------------------------------------------------------
(* A download begins when the page likes, as long as it is open, and takes *)
(* its time.  A file that has not been moved goes with its context.        *)

Drop(S) == sample' = [d \in Depths |-> IF d \in S /\ sample[d] \in {"coming", "here"}
                                       THEN "gone" ELSE sample[d]]

DownloadBegins(d) ==
  /\ cli = "scanning" /\ at[d] \notin {"check", "launch", "context", "setup"}
  /\ <<d, "page">> \in contexts /\ browser = "open"
  /\ sample[d] = "none"
  /\ sample' = [sample EXCEPT ![d] = "coming"]
  /\ UNCHANGED <<process, browser, contexts, at, ended, page, row, faults>>

DownloadEnds(d) ==
  /\ cli = "scanning" /\ sample[d] = "coming"
  /\ \E s \in {"here", "gone"} : sample' = [sample EXCEPT ![d] = s]
  /\ UNCHANGED <<process, browser, contexts, at, ended, page, row, faults>>

Listed(d, what) == /\ row' = [row EXCEPT ![d] = what]
                   /\ Goto(d, "cloaking")
                   /\ UNCHANGED <<process, browser, contexts, ended, page>>

(* One that has not begun by now has no row; path() waits for one that has.*)
NoDownload(d) == /\ AtStep(d, "downloads") /\ sample[d] = "none"
                 /\ Listed(d, "none")
                 /\ UNCHANGED <<sample, faults>>

(* Too large, or failed.                                                   *)
Discard(d) == /\ AtStep(d, "downloads") /\ sample[d] \in {"here", "gone"}
              /\ Listed(d, "unnamed")
              /\ Drop({d})
              /\ UNCHANGED faults

Quarantine(d) == /\ AtStep(d, "downloads") /\ sample[d] = "here"
                 /\ Listed(d, "named")
                 /\ sample' = [sample EXCEPT ![d] = "quarantine"]
                 /\ UNCHANGED faults

(* The path is in the row before the file is moved to it.                  *)
QuarantineFails(d) == /\ AtStep(d, "downloads") /\ sample[d] = "here"
                      /\ Listed(d, "named")
                      /\ sample' = [sample EXCEPT ![d] = "lost"]
                      /\ Fault

-----------------------------------------------------------------------------
(* check_cloaking: the page once more, as a normal browser and as a bot,   *)
(* each in a context of its own.                                           *)

(* The final URL may not be allowed: it is that of an error page.          *)
CheckCloaking(d) ==
  /\ AtStep(d, "cloaking")
  /\ \E step \in {"open_normal", "close"} : Goto(d, step)
  /\ UNCHANGED <<process, browser, contexts, ended, page, loot, faults>>

OpenView(d, view, open, read) ==
  /\ AtStep(d, open)
  /\ \/ contexts' = contexts \cup {<<d, view>>} /\ Goto(d, read) /\ Works
     \/ Goto(d, "close") /\ Raises /\ UNCHANGED contexts
  /\ UNCHANGED <<process, browser, ended, page, loot>>

(* Mutant: the context is closed when its text has been read.              *)
LeakyShut(context, done) ==
  contexts' = IF done THEN contexts \ {context} ELSE contexts

(* The context is closed whether its text has been read or not.            *)
Shut(context, done) ==
  contexts' = contexts \ {context}

ReadNormal(d) ==
  /\ AtStep(d, "read_normal")
  /\ \E done \in BOOLEAN : /\ done => browser = "open"
                           /\ Shut(<<d, "normal">>, done)
                           /\ Goto(d, IF done THEN "open_bot" ELSE "close")
  /\ UNCHANGED <<process, browser, ended, page, loot, faults>>

ReadBot(d) ==
  /\ AtStep(d, "read_bot")
  /\ \E done \in BOOLEAN : /\ done => browser = "open"
                           /\ Shut(<<d, "bot">>, done)
                           /\ \E found \in IF done THEN {"unknown", "same", "differs"} ELSE {"unknown"} :
                                cloaking' = [cloaking EXCEPT ![d] = found]
  /\ Goto(d, "close")
  /\ UNCHANGED <<process, browser, ended, nav, dom, home, full, loot, faults>>

-----------------------------------------------------------------------------
(* The finally clauses.                                                    *)

CloseContext(d) ==
  /\ AtStep(d, "close")
  /\ contexts' = contexts \ {<<d, "page">>}
  /\ Drop({d})
  /\ Goto(d, "browser")
  /\ UNCHANGED <<process, browser, ended, page, row, faults>>

(* The driver of the scan that launched the browser ends with it, and so   *)
(* does the browser, even if close() fails.                                *)
CloseBrowser(d) ==
  /\ AtStep(d, "browser")
  /\ IF Owns(d) THEN browser' = "closed" /\ contexts' = {} ELSE UNCHANGED <<browser, contexts>>
  /\ Goto(d, "over")
  /\ ended' = [ended EXCEPT ![d] = IF @ = "raised" THEN @ ELSE "result"]
  /\ UNCHANGED <<process, page, loot, faults>>

BrowserCrashes ==
  /\ cli = "scanning" /\ browser = "open" /\ Fault
  /\ browser' = "crashed"
  /\ Drop(Depths)
  /\ UNCHANGED <<process, contexts, at, ended, page, row>>

-----------------------------------------------------------------------------
(* main.                                                                   *)

Begin ==
  /\ cli = "start"
  /\ cli' = "scanning" /\ proxy' = "up"
  /\ Goto(0, "check")
  /\ UNCHANGED <<browser, contexts, ended, page, loot, json, faults>>

Returned ==
  /\ AtStep(0, "over")
  /\ proxy' = "closed"
  /\ cli' = IF ended[0] = "raised" THEN "failed" ELSE "home"
  /\ UNCHANGED <<browser, contexts, at, ended, page, loot, json, faults>>

(* The disk or the volume refuses: main ends with an exception.            *)
MainFails ==
  /\ cli \in {"home", "full", "sample", "write", "replace"} /\ Fault
  /\ cli' = "failed"
  /\ json' = "none"
  /\ UNCHANGED <<proxy, browser, contexts, at, ended, page, loot>>

Moved(where) == IF where = "tmp" THEN "shared" ELSE where

MoveHome ==
  /\ cli = "home" /\ cli' = "full"
  /\ home' = [home EXCEPT ![0] = Moved(@)]
  /\ UNCHANGED <<proxy, browser, contexts, at, ended, nav, dom, full, cloaking, loot, json, faults>>

MoveFull ==
  /\ cli = "full" /\ cli' = "sample"
  /\ full' = [full EXCEPT ![0] = Moved(@)]
  /\ UNCHANGED <<proxy, browser, contexts, at, ended, nav, dom, home, cloaking, loot, json, faults>>

(* Mutant: the samples stay where they are.                                *)
StayingMoveSample ==
  /\ cli = "sample" /\ cli' = "write"
  /\ UNCHANGED <<proxy, browser, contexts, at, ended, page, loot, json, faults>>

(* The samples of this scan, not those of a linked one.                    *)
MoveSample ==
  /\ cli = "sample" /\ cli' = "write"
  /\ sample' = [sample EXCEPT ![0] = IF @ = "quarantine" THEN "shared" ELSE @]
  /\ UNCHANGED <<proxy, browser, contexts, at, ended, page, row, json, faults>>

(* _atomic_write_json.                                                     *)
WriteJson ==
  /\ cli = "write" /\ cli' = "replace"
  /\ json' = "partial"
  /\ UNCHANGED <<proxy, browser, contexts, at, ended, page, loot, faults>>

ReplaceJson ==
  /\ cli = "replace" /\ cli' = "done"
  /\ json' = "saved"
  /\ UNCHANGED <<proxy, browser, contexts, at, ended, page, loot, faults>>

(* The process is over, or killed with nothing closed; docker removes the  *)
(* container, and what is not in the shared directory goes with it: the    *)
(* files of the linked scans, and the result if it was not saved.          *)
Ended == cli \in {"done", "failed"} /\ UNCHANGED faults

Killed == cli \notin {"done", "failed", "removed"} /\ Fault

Kept(f, none) ==
  [d \in Depths |-> IF d = 0 /\ json = "saved" THEN f[d] ELSE none]

Remains(where) ==
  [d \in Depths |-> IF where[d] \in {"shared", "none", "lost"} THEN where[d] ELSE "gone"]

RemoveContainer ==
  /\ Ended \/ Killed
  /\ cli' = "removed"
  /\ proxy' = "closed" /\ browser' = "closed" /\ contexts' = {}
  /\ at' = [d \in Depths |-> "idle"]
  /\ home' = Remains(home) /\ full' = Remains(full) /\ sample' = Remains(sample)
  /\ ended' = Kept(ended, "no") /\ row' = Kept(row, "none")
  /\ nav' = Kept(nav, FALSE) /\ dom' = Kept(dom, FALSE)
  /\ cloaking' = Kept(cloaking, "unknown")
  /\ UNCHANGED json

-----------------------------------------------------------------------------
ScannerInit ==
  /\ cli = "start" /\ proxy = "none" /\ browser = "none" /\ contexts = {}
  /\ at = [d \in Depths |-> "idle"]
  /\ ended = [d \in Depths |-> "no"]
  /\ nav = [d \in Depths |-> FALSE] /\ dom = [d \in Depths |-> FALSE]
  /\ home = [d \in Depths |-> "none"] /\ full = [d \in Depths |-> "none"]
  /\ sample = [d \in Depths |-> "none"] /\ row = [d \in Depths |-> "none"]
  /\ cloaking = [d \in Depths |-> "unknown"]
  /\ json = "none" /\ faults = 0

ScanUrl(d) ==
  \/ Refuse(d) \/ Allow(d) \/ Launch(d) \/ OpenContext(d) \/ SetUp(d)
  \/ Navigate(d) \/ Settle(d) \/ Snapshot(d) \/ ShootHome(d) \/ ShootFull(d)
  \/ FollowCode(d) \/ NoCode(d) \/ Linked(d)
  \/ NoDownload(d) \/ Discard(d) \/ Quarantine(d) \/ QuarantineFails(d)
  \/ CheckCloaking(d) \/ OpenView(d, "normal", "open_normal", "read_normal") \/ ReadNormal(d)
  \/ OpenView(d, "bot", "open_bot", "read_bot") \/ ReadBot(d)
  \/ CloseContext(d) \/ CloseBrowser(d)

Page(d) == DownloadBegins(d) \/ DownloadEnds(d)

Main == \/ Begin \/ Returned \/ MoveHome \/ MoveFull \/ MoveSample
        \/ WriteJson \/ ReplaceJson \/ MainFails

ScannerNext ==
  \/ \E d \in Depths : ScanUrl(d) \/ Page(d)
  \/ Main \/ BrowserCrashes \/ RemoveContainer

-----------------------------------------------------------------------------
(* Properties.                                                             *)

Using(d) == at[d] \notin {"idle", "check", "launch", "over"}

(* No scan is left without its browser -- in particular, a linked scan     *)
(* does not close the one it was lent -- and none leaves a context open,   *)
(* nor main the browser or the proxy.                                      *)
Lifetimes ==
  /\ cli = "scanning" => \A d \in Depths : Using(d) => browser \in {"open", "crashed"}
  /\ \A c \in contexts : Using(c[1])
  /\ cli \notin {"start", "scanning"} =>
       contexts = {} /\ browser \in {"none", "closed"} /\ proxy = "closed"

(* What is saved names only files that are still there when the container  *)
(* has gone, but for those of a linked scan, and for a sample whose move   *)
(* to the quarantine failed.                                               *)
NamedFilesAreKept ==
  json = "saved" /\ cli = "removed" =>
    /\ home[0] # "gone" /\ full[0] # "gone"
    /\ row[0] = "named" => sample[0] \in {"shared", "lost"}
=============================================================================
