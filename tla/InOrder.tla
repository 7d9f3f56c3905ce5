------------------------------- MODULE InOrder -------------------------------
(***************************************************************************)
(* What a receiver of a broadcast still has before it, said without a      *)
(* recursive filter: the increasing map from the positions of one sequence *)
(* onto the positions of another.                                          *)
(***************************************************************************)
EXTENDS Naturals, Sequences

\* After its first n members, due lists the members of inbox at the positions P:
\* all of them, in order, and nothing else.
StillToCome(due, n, inbox, P) ==
    /\ n <= Len(due)
    /\ \E at \in [(n + 1)..Len(due) -> P] :
          /\ \A k \in (n + 1)..Len(due) : due[k] = inbox[at[k]]
          /\ \A j, k \in (n + 1)..Len(due) : j < k => at[j] < at[k]
          /\ \A p \in P : \E k \in (n + 1)..Len(due) : at[k] = p
=============================================================================
