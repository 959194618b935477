------------------------------ MODULE Consistency ------------------------------
(***************************************************************************)
(* The consistency engine (consistency_engine/consistency_engine.py): what *)
(* the browser saw of a page against what the sandbox saw, category by     *)
(* category, and the report drawn from it.                                 *)
(*                                                                         *)
(* A similarity is a number of tenths and a weight one of hundredths.  What*)
(* the browser saw is a record [text, brand]: whether there are words in   *)
(* its screenshot, and the brand found in it.  What the sandbox saw is a   *)
(* record [png, html, text, brand] -- whether its screenshot and its page  *)
(* source are there, and what is found in the screenshot -- together with  *)
(* how alike the two pictures, wordings, page sources, titles and final    *)
(* URLs are: [picture, wording, source, title, url].                       *)
(***************************************************************************)
EXTENDS Integers

NoBrand == "no brand"

MISMATCH_THRESHOLD == 6

WEIGHTS == [screenshot |-> 25, ocr |-> 20, dom |-> 20, metadata |-> 15, logo |-> 20]

Categories == DOMAIN WEIGHTS

Similar(s)    == [similarity |-> s, indeterminate |-> FALSE]
Indeterminate == [similarity |-> 10, indeterminate |-> TRUE]

(* Mutant: a screenshot that is not there is left out of the score.        *)
LenientScreenshots(seen) == IF seen.png THEN Similar(seen.picture) ELSE Indeterminate

(* A screenshot that cannot be opened is as different as can be.           *)
CompareScreenshots(seen) == Similar(IF seen.png THEN seen.picture ELSE 0)

(* Nor are there words in it.                                              *)
CompareOcr(shown, seen) ==
  LET words == seen.png /\ seen.text
  IN  IF shown.text \/ words
      THEN Similar(IF shown.text /\ words THEN seen.wording ELSE 0)
      ELSE Indeterminate

CompareDom(seen) == IF seen.html THEN Similar(seen.source) ELSE Indeterminate

CompareMetadata(seen) == Similar((seen.title + seen.url) \div 2)

CompareLogo(shown, seen) ==
  LET brand == IF seen.png THEN seen.brand ELSE NoBrand
  IN  IF shown.brand = NoBrand /\ brand = NoBrand THEN Indeterminate
      ELSE Similar(IF shown.brand = brand THEN 10 ELSE 0)

Analyze(shown, seen) ==
  [screenshot |-> CompareScreenshots(seen),
   ocr        |-> CompareOcr(shown, seen),
   dom        |-> CompareDom(seen),
   metadata   |-> CompareMetadata(seen),
   logo       |-> CompareLogo(shown, seen)]

Total(n) == n.screenshot + n.ocr + n.dom + n.metadata + n.logo

(* Mutant: the weights are dropped, and the others left as they are.       *)
UnscaledBelow(comparisons) ==
  LET Part(c) == IF comparisons[c].indeterminate THEN 0
                 ELSE comparisons[c].similarity * WEIGHTS[c]
  IN  Total([c \in Categories |-> Part(c)]) < MISMATCH_THRESHOLD * 100

(* The weights of the indeterminate categories are dropped, and the others *)
(* scaled up to a sum of one.                                              *)
Below(comparisons) ==
  LET Weight(c) == IF comparisons[c].indeterminate THEN 0 ELSE WEIGHTS[c]
      Part(c)   == comparisons[c].similarity * Weight(c)
  IN  Total([c \in Categories |-> Part(c)])
        < MISMATCH_THRESHOLD * Total([c \in Categories |-> Weight(c)])

(* The screenshots are never indeterminate: some weight is left.         *)
Report(comparisons) ==
  LET active     == {c \in Categories : ~comparisons[c].indeterminate}
      mismatches == {c \in active : comparisons[c].similarity < MISMATCH_THRESHOLD}
  IN  [cloaking_suspected |-> Below(comparisons) \/ "logo" \in mismatches,
       mismatches         |-> mismatches,
       reduced_confidence |-> active # Categories]
=============================================================================
