------------------------------- MODULE DevTree -------------------------------
(***************************************************************************)
(* What the editing functions of libfdt promise: a device tree is a        *)
(* sequence of tokens (begin name, property, end) and a list of reserved   *)
(* ranges; a call either does exactly its edit and returns 0 (or, when it  *)
(* adds a node, a non-negative offset), or returns an error and does       *)
(* nothing.  Which error follows from the tree, except that any call may   *)
(* run out of space.                                                       *)
(***************************************************************************)
EXTENDS Integers, Sequences, FiniteSets, FiniteSetsExt, SequencesExt

CONSTANT Calls     \* the calls: [f, i, name, val], i the index of a begin token

VARIABLES tree, rsvs, call, ret

AtSign == 64
Ntfd == -1
Exst == -2
Nosp == -3
Badv == -15

NodeIdx(t) == {i \in 1..Len(t) : t[i].tag = "begin"}
\* Nodes open after the first j tokens.
Depth(t, j) == Cardinality({k \in 1..j : t[k].tag = "begin"})
               - Cardinality({k \in 1..j : t[k].tag = "end"})
EndOf(t, i) == Min({j \in i..Len(t) : Depth(t, j) = Depth(t, i) - 1})
PropsOf(t, i) == {j \in (i + 1)..Len(t) : \A k \in (i + 1)..j : t[k].tag = "prop"}
PropOf(t, i, name) ==
    LET P == {j \in PropsOf(t, i) : t[j].name = name} IN IF P = {} THEN 0 ELSE Min(P)
ChildrenOf(t, i) ==
    {j \in NodeIdx(t) : i < j /\ j < EndOf(t, i) /\ Depth(t, j) = Depth(t, i) + 1}
\* "cpu" names the node "cpu" and the node "cpu@0".
Matches(full, s) ==
    \/ full = s
    \/ /\ Len(full) > Len(s) /\ SubSeq(full, 1, Len(s)) = s
       /\ full[Len(s) + 1] = AtSign /\ ~Contains(s, AtSign)
ChildOf(t, i, s) ==
    LET C == {j \in ChildrenOf(t, i) : Matches(t[j].name, s)} IN IF C = {} THEN 0 ELSE Min(C)

Prop(name, val) == [tag |-> "prop", name |-> name, val |-> val]
Begin(name) == [tag |-> "begin", name |-> name, val |-> <<>>]
End == [tag |-> "end", name |-> <<>>, val |-> <<>>]
Cut(t, i, j) == SubSeq(t, 1, i - 1) \o SubSeq(t, j + 1, Len(t))
Splice(t, i, s) == SubSeq(t, 1, i) \o s \o SubSeq(t, i + 1, Len(t))

\* What each call does to the tree when it succeeds.
Effect(c, t) ==
    LET p == PropOf(t, c.i, c.name)
    IN  CASE c.f \in {"setprop", "inplace"} ->
                IF p = 0 THEN Splice(t, c.i, <<Prop(c.name, c.val)>>)
                ELSE [t EXCEPT ![p].val = c.val]
          [] c.f = "appendprop" ->
                IF p = 0 THEN Splice(t, c.i, <<Prop(c.name, c.val)>>)
                ELSE [t EXCEPT ![p].val = @ \o c.val]
          [] c.f \in {"delprop", "nop_property"} -> Cut(t, p, p)
          [] c.f = "set_name" -> [t EXCEPT ![c.i].name = c.name]
          [] c.f = "add_subnode" ->
                Splice(t, c.i + Cardinality(PropsOf(t, c.i)), <<Begin(c.name), End>>)
          [] c.f \in {"del_node", "nop_node"} -> Cut(t, c.i, EndOf(t, c.i))
          [] OTHER -> t

RsvEffect(c, r) ==
    CASE c.f = "add_mem_rsv" -> Append(r, c.val)
      [] c.f = "del_mem_rsv" -> Cut(r, c.i + 1, c.i + 1)
      [] OTHER -> r

\* The error a call must return, 0 for none.
Verdict(c, t, r) ==
    LET p == PropOf(t, c.i, c.name)
    IN  CASE c.f \in {"delprop", "nop_property"} -> IF p = 0 THEN Ntfd ELSE 0
          [] c.f = "inplace" -> IF p = 0 THEN Ntfd
                                ELSE IF Len(t[p].val) # Len(c.val) THEN Nosp ELSE 0
          [] c.f = "add_subnode" -> IF ChildOf(t, c.i, c.name) # 0 THEN Exst ELSE 0
          [] c.f = "bad_value" -> Badv
          [] c.f = "del_mem_rsv" -> IF c.i >= Len(r) THEN Ntfd ELSE 0
          [] OTHER -> 0

Next == /\ call' \in Calls
        /\ LET v == Verdict(call', tree, rsvs)
           IN  \/ /\ v = 0 /\ ret' >= 0
                  /\ tree' = Effect(call', tree) /\ rsvs' = RsvEffect(call', rsvs)
               \/ /\ v # 0 /\ ret' = v
                  /\ UNCHANGED <<tree, rsvs>>
               \/ /\ ret' = Nosp
                  /\ UNCHANGED <<tree, rsvs>>

Spec == [][Next]_<<tree, rsvs, call, ret>>
=============================================================================
