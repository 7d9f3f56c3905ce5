----------------------------- MODULE MCServices -----------------------------
EXTENDS Services, TLC

CONSTANTS plain, buffered, tid, inside, outside, gains, loses

\* One tuple written outside any transaction, one written in it.
OneEach == (plain :> NoTxn) @@ (buffered :> tid)

\* One take in the transaction, one outside.
InAndOut == (inside :> tid) @@ (outside :> NoTxn)

\* One gains a field when it is modified; the other loses one, and has an attribute named
\* as the interface is.
TwoItems ==
    (gains :> <<[key |-> <<"a", "b">>], [key |-> <<"b">>, more |-> <<"a">>]>>) @@
    (loses :> <<[key |-> <<"b">>, more |-> <<"a", "b">>, interface |-> <<"b">>], [key |-> <<"a">>]>>)

TwoInterfaces == (gains :> <<"b">>) @@ (loses :> <<"a">>)

FewTemplates ==
    {[key |-> [op |-> "contains:", rest |-> <<"b">>]],
     [key |-> [op |-> "starts_with:", rest |-> <<"a">>], gone |-> [op |-> "", rest |-> <<"*">>]],
     [more |-> [op |-> "", rest |-> <<"a">>]],
     [interface |-> [op |-> "", rest |-> <<"b">>]]}

ShortTexts == UNION {[1..n -> {"a", "b", "*"}] : n \in 0..2}

\* Two of those that run_all registers, in its order.
TwoServices == <<"EventMgr", "Proxy">>
=============================================================================
