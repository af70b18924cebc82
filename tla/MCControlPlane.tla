--------------------------- MODULE MCControlPlane ---------------------------
(* Instances of ControlPlane for TLC. *)
EXTENDS ControlPlane, SequencesExt

CONSTANTS a, b, boot, r1, r2

S(name, value) == [name |-> name, value |-> value]

MCOptions == UNION {[1..n -> Secret] : n \in 0..3}

(* MySQL insists on its listener's password; the others on nothing. *)
MCRequired == [p \in Protocols |-> IF p = "mysql" THEN {"x"} ELSE {}]

Upstream(protocol, addr, enabled, options) ==
    [addr |-> addr, enabled |-> enabled, protocol |-> protocol,
     options |-> options]

Redis(addr, enabled, value) == Upstream("redis", addr, enabled, <<S("x", value)>>)

Items(x, y) == (a :> x) @@ (b :> y)

Send(item)       == [item |-> item, keep |-> {}]
Keep(item, keep) == [item |-> item, keep |-> keep]

(***************************************************************************)
(* The loop of mergeRuleSecrets: what is left of the existing list, and    *)
(* the values so far.  MergedValue is what it computes.                    *)
(***************************************************************************)
Loop(body, old) ==
    LET Turn(acc, n) ==
            LET free == {m \in DOMAIN old \ acc.used :
                            old[m].name = body.item.options[n].name}
                m == CHOOSE m \in free : \A l \in free : m <= l
            IN  IF n \notin Keepers(body)
                  THEN [acc EXCEPT !.values = Append(@, body.item.options[n].value)]
                ELSE IF free = {} THEN [acc EXCEPT !.values = Append(@, NoSecret)]
                ELSE [used |-> acc.used \cup {m},
                      values |-> Append(acc.values, old[m].value)]
    IN  FoldLeft(Turn, [used |-> {}, values |-> <<>>],
                 [n \in DOMAIN body.item.options |-> n]).values

LoopNames  == {"x", "y"}
LoopValues == {NoSecret, "s1", "s2"}

ASSUME MergedValueIsTheLoop ==
    \A sent \in [1..3 -> [name : LoopNames, value : {NoSecret, "s1"}]],
       old \in UNION {[1..n -> [name : LoopNames, value : LoopValues]] : n \in 0..2},
       keep \in {{1, 2, 3}, {1, 3}, {2, 3}, {3}} :
        LET body == Keep(Upstream("http", 1, TRUE, sent), keep)
        IN  [n \in 1..3 |-> MergedValue(body, old, n)] = Loop(body, old)

-----------------------------------------------------------------------------
(* Requests that do not overlap: a document with one listener, and an      *)
(* upstream that is disabled.                                              *)
MCFilesTwo == {Items(Redis(1, TRUE, "s1"), Redis(1, FALSE, "$x"))}

(* Listen on one address; on the other with the secret as it is; on that   *)
(* with a missing variable.                                                *)
MCBodiesTwo == {Send(Redis(1, TRUE, "s1")), Keep(Redis(2, TRUE, NoSecret), {1}),
                Send(Redis(2, TRUE, "$x"))}

MCRequestsTwo == MCFilesTwo

-----------------------------------------------------------------------------
(* Overlapping requests, and an upstream with two header rules of one name *)
(* and one of another.                                                     *)
Rules(addr, enabled, x1, x2, y) ==
    Upstream("http", addr, enabled, <<S("x", x1), S("x", x2), S("y", y)>>)

Edited(y) == Upstream("grpc", 2, TRUE, <<S("y", y), S("x", "s1")>>)

MCFilesRules == {Items(Rules(1, FALSE, "s1", "s2", "s1"), None)}

(* Send it back as it is shown, enabled; as a gRPC upstream with one rule  *)
(* kept and one changed; as a Redis upstream that asks for a rule's value. *)
MCBodiesRules ==
    {Public(Rules(2, TRUE, "s1", "s2", "s1")),
     Keep(Edited(NoSecret), {1}),
     Keep(Redis(1, FALSE, NoSecret), {1})}

(* The lists these can form: the other upstream is made by a POST, which   *)
(* one PUT may follow.                                                     *)
MCRequestsRules ==
    LET sent  == {None, Redis(1, FALSE, ""), Edited(""), Rules(2, TRUE, "", "", ""),
                  Rules(2, TRUE, "s1", "", "")}
        first == sent \cup {Rules(1, FALSE, "s1", "s2", "s1"), Edited("s1"),
                           Rules(2, TRUE, "s1", "s2", "s1"),
                           Rules(2, TRUE, "s1", "", "s1")}
    IN  {items \in {Items(x, y) : x \in first, y \in sent} : AddressesUnique(items)}

RequestSymmetry == Permutations(Calls \ {boot})
=============================================================================
