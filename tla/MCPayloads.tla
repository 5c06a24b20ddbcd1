----------------------------- MODULE MCPayloads -----------------------------
(* An instance of Payloads for TLC: bytes of four values. *)
EXTENDS Payloads

\* Of every struct: each member the least of its type, each the greatest, and
\* all different from each other where a byte allows it.
Values(fields) ==
    LET index(n) == CHOOSE i \in DOMAIN fields : fields[i].name = n
        least(f) == IF f.signed THEN -(Pow[f.bytes] \div 2) ELSE 0
        struct(op(_)) == [n \in {fields[i].name : i \in DOMAIN fields} |-> op(index(n))]
    IN  {struct(LAMBDA i : least(fields[i])),
         struct(LAMBDA i : least(fields[i]) + Pow[fields[i].bytes] - 1),
         struct(LAMBDA i : IF fields[i].bytes = 1 THEN i % Base ELSE 1000 + i)}

MCDatas   == [k \in Kinds |-> Values(Structs[k])]
MCPeers   == {<<1, 20>>, <<13, 10>>}   \* another node, and the address in the table
MCLengths == {1, 2}
=============================================================================
