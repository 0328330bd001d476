---------------------------- MODULE LeaseService ----------------------------
(***************************************************************************)
(* What the conflict manager promises its callers: an acquisition gets all *)
(* of its keys at once or none, no key has two holders, and acquisitions   *)
(* that conflict are served in the order in which they started to wait.    *)
(* No queues, wakers, timers, candidates or locks.                         *)
(***************************************************************************)
CONSTANTS Keys, Ids

VARIABLES
    want,       \* the keys an acquisition waits for or holds
    phase,      \* "idle", "waiting", "held" or "over"
    before      \* <<v, w>>: v and w conflict, both wait, and v is first

leaseVars == <<want, phase, before>>

LSInit ==
    /\ want = [w \in Ids |-> {}]
    /\ phase = [w \in Ids |-> "idle"]
    /\ before = {}

Rivals(w, ks, phases) ==
    {v \in Ids \ {w} : phase[v] \in phases /\ want[v] \cap ks # {}}

Involving(w) == {p \in before : w \in {p[1], p[2]}}

\* Wait behind every conflicting waiter.
Wait(w, ks) ==
    /\ phase[w] = "idle"
    /\ Rivals(w, ks, {"waiting", "held"}) # {}
    /\ want' = [want EXCEPT ![w] = ks]
    /\ phase' = [phase EXCEPT ![w] = "waiting"]
    /\ before' = before \cup {<<v, w>> : v \in Rivals(w, ks, {"waiting"})}

\* Take keys nobody holds or waits for.
TakeFree(w, ks) ==
    /\ phase[w] = "idle"
    /\ Rivals(w, ks, {"waiting", "held"}) = {}
    /\ want' = [want EXCEPT ![w] = ks]
    /\ phase' = [phase EXCEPT ![w] = "held"]
    /\ UNCHANGED before

\* Serve a waiter with no conflicting holder and no conflicting predecessor.
Serve(w) ==
    /\ phase[w] = "waiting"
    /\ Rivals(w, want[w], {"held"}) = {}
    /\ \A v \in Ids : <<v, w>> \notin before
    /\ phase' = [phase EXCEPT ![w] = "held"]
    /\ before' = before \ Involving(w)
    /\ UNCHANGED want

\* Give up waiting, or give the keys back.
Leave(w) ==
    /\ phase[w] \in {"waiting", "held"}
    /\ want' = [want EXCEPT ![w] = {}]
    /\ phase' = [phase EXCEPT ![w] = "over"]
    /\ before' = before \ Involving(w)

LSNext ==
    \E w \in Ids :
        \/ \E ks \in SUBSET Keys : Wait(w, ks) \/ TakeFree(w, ks)
        \/ Serve(w) \/ Leave(w)

LSSpec == LSInit /\ [][LSNext]_leaseVars
=============================================================================
