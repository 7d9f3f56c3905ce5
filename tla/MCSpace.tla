------------------------------ MODULE MCSpace ------------------------------
EXTENDS Space, TLC

CONSTANTS t1, c1

\* All templates match everything.
Uniform == [c \in Client |-> Tuple]

\* The first template matches everything, the others only t1.
Selective == [c \in Client |-> IF c = c1 THEN Tuple ELSE {t1}]

\* Everyone may ask for everything.
Anything == [c \in Client |-> {"write", "read", "take", "cancel"} \X (Txn \cup {NoTxn})]

\* The first client writes, the others wait for tuples.
Waiting == [c \in Client |-> IF c = c1 THEN {"write"} \X (Txn \cup {NoTxn})
                             ELSE {"read", "take"} \X {NoTxn}]

\* The first client writes, the others take.
Taking == [c \in Client |-> IF c = c1 THEN {"write"} \X (Txn \cup {NoTxn})
                            ELSE {"take"} \X (Txn \cup {NoTxn})]

Symmetry == Permutations(Tuple) \cup Permutations(Client) \cup Permutations(Handler)
            \cup Permutations(Remover)
=============================================================================
