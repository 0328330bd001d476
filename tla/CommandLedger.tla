---------------------------- MODULE CommandLedger ----------------------------
(***************************************************************************)
(* What the commit coordinator promises its callers: an append-only ledger *)
(* with at most one record for an idempotency key, in which every answer   *)
(* that names a commit can be found, whatever happens to the process in    *)
(* between.                                                                *)
(***************************************************************************)
EXTENDS Naturals, Sequences

CONSTANTS Commands, KeyOf, InputOf

VARIABLES ledger, told, asked

ledgerVars == <<ledger, told, asked>>

Nothing == [kind |-> "None", seq |-> 0]

LedgerInit == ledger = <<>> /\ told = [c \in Commands |-> Nothing] /\ asked = {}

Single(records) ==
    \A i, j \in DOMAIN records :
        KeyOf[records[i]] = KeyOf[records[j]] => i = j

\* An answer agrees with the ledger.  A mismatch needs another attempt with the
\* key, which need not have succeeded.  Answers that are errors claim nothing.
Agrees(c, reply, records) ==
    CASE reply.kind = "FirstCommit" ->
            reply.seq \in DOMAIN records /\ records[reply.seq] = c
      [] reply.kind = "Replay" ->
            /\ reply.seq \in DOMAIN records
            /\ KeyOf[records[reply.seq]] = KeyOf[c]
            /\ InputOf[records[reply.seq]] = InputOf[c]
      [] reply.kind = "InputMismatch" ->
            \E d \in asked : KeyOf[d] = KeyOf[c] /\ InputOf[d] # InputOf[c]
      [] OTHER -> TRUE

\* The ledger only grows, and answers are given once and agree with it.
LedgerNext ==
    /\ SubSeq(ledger', 1, Len(ledger)) = ledger
    /\ Len(ledger') >= Len(ledger)
    /\ Single(ledger')
    /\ asked \subseteq asked'
    /\ \A c \in Commands :
          told'[c] # told[c] => /\ told[c] = Nothing
                                /\ Agrees(c, told'[c], ledger')

LedgerSpec == LedgerInit /\ [][LedgerNext]_ledgerVars

=============================================================================
