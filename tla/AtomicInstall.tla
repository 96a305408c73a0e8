---------------------------- MODULE AtomicInstall ----------------------------
(***************************************************************************)
(* What nxextract promises about the game data, with no journal, stage or  *)
(* backup in sight: the payload a launch may rely on is replaced as a      *)
(* whole or not at all, and the certificate of a full validation always    *)
(* describes the payload it is attached to.                                *)
(***************************************************************************)
EXTENDS Naturals

CONSTANTS Path,    \* the commit paths of the recipe
          Object,  \* the files that may stand at a path
          NoFile   \* nothing stands at the path

VARIABLES payload,   \* the file at every commit path
          certified  \* the installation marker vouches for the payload

Complete(f) == \A p \in Path : f[p] # NoFile

Init ==
  /\ payload \in [Path -> Object]
  /\ certified = FALSE

\* A new payload takes the place of the old one at every path in one step, and
\* is certified by the same step.
Replace ==
  /\ payload' \in [Path -> Object]
  /\ Complete(payload')
  /\ \A p \in Path : payload'[p] # payload[p]
  /\ certified' = TRUE

\* A complete payload that was already there is adopted as it is.
Certify ==
  /\ Complete(payload)
  /\ certified' = TRUE
  /\ UNCHANGED payload

\* The certificate stops applying; the payload is not touched.
Lapse ==
  /\ certified' = FALSE
  /\ UNCHANGED payload

Next == Replace \/ Certify \/ Lapse

Spec == Init /\ [][Next]_<<payload, certified>>
=============================================================================
