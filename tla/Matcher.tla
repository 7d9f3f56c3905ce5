------------------------------- MODULE Matcher -------------------------------
(***************************************************************************)
(* The template matcher (coordin8-registry/matcher.rs).  A text is a       *)
(* sequence of letters; a template's text is split where the code strips   *)
(* its prefix: `op` is the prefix it has, or "" when it has none.          *)
(***************************************************************************)
EXTENDS Naturals, Sequences

Star == "*"

\* What a template says of one field.
Asked == [op : {"", "contains:", "starts_with:"}, rest : Seq(STRING)]

AnyOp == [op |-> "any", arg |-> <<>>]

starts_with(value, arg) == Len(arg) <= Len(value) /\ SubSeq(value, 1, Len(arg)) = arg

OpMatches(o, value) ==
    CASE o.op = "eq"         -> value = o.arg
      [] o.op = "contains"   -> \E i \in 1..(Len(value) + 1) : starts_with(SubSeq(value, i, Len(value)), o.arg)
      [] o.op = "startswith" -> starts_with(value, o.arg)
      [] o.op = "any"        -> TRUE

parse_template(template) ==
    [k \in DOMAIN template |->
        LET v == template[k] IN
        CASE v.op = "" /\ v.rest \in {<<>>, <<Star>>} -> AnyOp
          [] v.op = "contains:"    -> [op |-> "contains", arg |-> v.rest]
          [] v.op = "starts_with:" -> [op |-> "startswith", arg |-> v.rest]
          [] OTHER                 -> [op |-> "eq", arg |-> v.rest]]

\* A field the attributes lack matches Any alone.
matches(ops, attrs) ==
    \A k \in DOMAIN ops :
        IF k \in DOMAIN attrs THEN OpMatches(ops[k], attrs[k]) ELSE ops[k].op = "any"
=============================================================================
