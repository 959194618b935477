------------------------------- MODULE Evidence -------------------------------
(***************************************************************************)
(* What the consistency task (tasks/consistency.py) makes of a run of the  *)
(* scanner: the worker has placed its screenshot and metadata beside those *)
(* of the browser (tasks/sandbox_analysis.py), or written a fallback.      *)
(*                                                                         *)
(* sandbox.html is never there.  It is written from result["dom_content"], *)
(* which is a mapping of counts and no text: the write raises, and the     *)
(* error is logged.                                                        *)
(***************************************************************************)
EXTENDS Scanner, Consistency

CONSTANTS
  Brands,     \* the brands of the reference set
  Likeness    \* the similarities to consider

ASSUME EvidenceAssumption == NoBrand \notin Brands /\ Likeness \subseteq 0 .. 10

VARIABLE report   \* what the report says, and whether the two views were the same

vars == <<scanner, report>>

Shows == [text : BOOLEAN, brand : Brands \cup {NoBrand}]

Placed   == json = "saved" /\ home[0] = "shared"
Metadata == json = "saved" /\ ended[0] = "result"

Compared(here, same, view) ==
  LET r == Report(Analyze(here, view))
  IN  report' = {[same               |-> same,
                  cloaking_suspected |-> r.cloaking_suspected,
                  reduced_confidence |-> r.reduced_confidence]}

(* The page showed the sandbox what it showed the browser.  All is alike,  *)
(* but for a title that was not captured, and for a URL, which is compared *)
(* with the one submitted.  Tesseract, or the matcher, may fail on         *)
(* sandbox.png: the error is logged, and nothing is found in it.           *)
CompareSame ==
  /\ cli = "removed" /\ nav[0] /\ report = {}
  /\ \E shown \in Shows, titled, moves \in BOOLEAN, misread \in SUBSET {"text", "brand"} :
       Compared(shown, misread = {},
                [png |-> Placed, html |-> FALSE,
                 picture |-> 10, wording |-> 10, source |-> 10,
                 title   |-> IF titled => Metadata /\ dom[0] THEN 10 ELSE 0,
                 url     |-> IF Metadata /\ ~moves THEN 10 ELSE 0,
                 text    |-> shown.text /\ "text" \notin misread,
                 brand   |-> IF "brand" \in misread THEN NoBrand ELSE shown.brand])
  /\ UNCHANGED scanner

(* It cloaks, or the sandbox's navigation failed.                          *)
Others == [png : {Placed}, html : {FALSE},
           picture : Likeness, wording : Likeness, source : {0}, title : Likeness,
           url : {0, 10}, text : BOOLEAN, brand : Brands \cup {NoBrand}]

CompareOther ==
  /\ cli = "removed" /\ report = {}
  /\ \E shown \in Shows, view \in Others : Compared(shown, FALSE, view)
  /\ UNCHANGED scanner

Init == ScannerInit /\ report = {}

Next == \/ ScannerNext /\ UNCHANGED report
        \/ CompareSame \/ CompareOther

Spec == Init /\ [][Next]_vars

-----------------------------------------------------------------------------
(* Properties.                                                             *)

(* A page that shows both the same is not suspected of cloaking, whatever  *)
(* else the sandbox could not capture and wherever the page has moved to,  *)
(* if the sandbox's screenshot is there and could be read.                 *)
SameViewsAreTrusted ==
  \A r \in report : r.same /\ Placed => ~r.cloaking_suspected

(* A page that kills the sandbox, or keeps it from taking its screenshot,  *)
(* is suspected: there is no way to a consistent report without a view.    *)
NoViewIsSuspect ==
  \A r \in report : ~Placed => r.cloaking_suspected
=============================================================================
