----------------------------- MODULE SeqLedger -----------------------------
(***************************************************************************)
(* What the base station promises about the batches of one numbering: each *)
(* number is published at most once; a number that was skipped is a gap    *)
(* until it is published or, with every older gap, given up for good when  *)
(* a new one opens; a number far below the next one expected starts a new  *)
(* numbering, which forgets everything about the old one.                  *)
(*                                                                         *)
(* How batches arrive (over UDP, in an answer over TCP, late, twice) and   *)
(* how gaps are asked for is left to TelemetryLink, which implements this. *)
(***************************************************************************)
EXTENDS Integers

CONSTANTS MaxSeq, ResetGap

LedgerSeqs == 1 .. MaxSeq
VARIABLES
  ledger, \* each number: "unseen", "published", "gap" or "lost"
  next    \* the number expected next, -1 before the first one

ledgerVars == <<ledger, next>>

Gaps == {s \in LedgerSeqs : ledger[s] = "gap"}
Blank == [s \in LedgerSeqs |-> "unseen"]

LedgerInit == ledger = Blank /\ next = -1

\* The first number of a numbering.
Begin(s) ==
  /\ next = -1 \/ s < next - ResetGap
  /\ ledger' = [Blank EXCEPT ![s] = "published"]
  /\ next' = s + 1

\* A number not below the expected one: those it skips become gaps, and the
\* gaps older than some number may be given up.
Advance(s) ==
  /\ next # -1 /\ s >= next
  /\ LET open == Gaps \cup next .. s - 1
     IN  \E oldest \in LedgerSeqs :
           ledger' = [g \in LedgerSeqs |->
                        IF g = s THEN "published"
                        ELSE IF g \in open THEN IF g >= oldest THEN "gap" ELSE "lost"
                        ELSE ledger[g]]
  /\ next' = s + 1

\* Some gaps are filled: one by a late datagram, several by an answer.
Fill(S) ==
  /\ S # {}
  /\ ledger' = [s \in LedgerSeqs |-> IF s \in S THEN "published" ELSE ledger[s]]
  /\ UNCHANGED next

\* The process ends and takes its ledger with it.
Forget == ledger' = Blank /\ next' = -1

LedgerNext ==
  \/ \E s \in LedgerSeqs : Begin(s) \/ Advance(s)
  \/ \E S \in SUBSET Gaps : Fill(S)
  \/ Forget

LedgerSpec == LedgerInit /\ [][LedgerNext]_ledgerVars
============================================================================
