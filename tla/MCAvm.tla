------------------------------- MODULE MCAvm -------------------------------
(* Addresses 0 to 4, the call stack from 3 on.  A program is a preamble     *)
(* that fills memory followed by up to two or three instructions; a script *)
(* ends with HALT or RETURN.                                               *)
EXTENDS Avm

MCCallData == <<7, 0, P - 1, 5>>

SeqsUpTo(S, n) == UNION {[1 .. k -> S] : k \in 0 .. n}

Flow == {<<"JUMP", 0>>, <<"JUMP", 2>>, <<"INTERNALCALL", 1>>, <<"INTERNALCALL", 2>>,
         <<"INTERNALRETURN">>, <<"RETURN", 1, 1>>, <<"SET", "U8", 1, 3>>,
         <<"CALLDATACOPY", 0, 4, 0>>, <<"CALLDATACOPY", 0, 2, 3>>}

Compute == {<<"ADD", "U8", 0, 1, 1>>, <<"ADD", "U128", 0, 0, 1>>, <<"ADD", "FF", 0, 2, 2>>,
            <<"SUB", "U8", 1, 0, 0>>, <<"SUB", "FF", 1, 2, 0>>, <<"SUB", "U128", 1, 0, 2>>,
            <<"MUL", "U128", 0, 0, 0>>, <<"MUL", "U8", 0, 1, 0>>, <<"MUL", "FF", 2, 2, 0>>,
            <<"DIV", "FF", 0, 2, 1>>, <<"DIV", "U8", 0, 1, 2>>, <<"NOT", "U8", 0, 1>>,
            <<"ADD", "U8", 4, 2, 0>>, <<"SET", "U8", 15, 2>>, <<"RETURN", 0, 0>>, <<"RETURN", 1, 4>>}

Preambles == {<<<<"SET", "U8", 13, 0>>, <<"SET", "U8", 2, 1>>>>,
              <<<<"SET", "U128", 255, 0>>, <<"SET", "U128", 3, 1>>>>,
              <<<<"CALLDATACOPY", 0, 3, 0>>>>}

MCPrograms ==
    SeqsUpTo(Flow, 4) \cup {pre \o p : pre \in Preambles, p \in SeqsUpTo(Compute, 2)}
        \cup {<<<<"EQ", "U8", 0, 1, 2>>>>, <<<<"CALLDATACOPY", 1, 0, 0>>>>, <<<<"RETURN", 4, 2>>>>,
              <<<<"CALLDATACOPY", 2, 3, 0>>>>, <<<<"INTERNALCALL", 0>>>>}

\* Bytecode cut short, with a byte replaced, or with a byte more.
MCCorrupted ==
    LET base == Encode(<<<<"SET", "U8", 3, 1>>, <<"NOT", "FF", 1, 2>>, <<"RETURN", 1, 1>>>>)
    IN  {SubSeq(base, 1, n) : n \in 0 .. Len(base)}
            \cup {[base EXCEPT ![i] = v] : i \in 1 .. Len(base), v \in 0 .. Radix - 1}
            \cup {Append(base, v) : v \in 0 .. Radix - 1}

MCScripts ==
    {pre \o p \o <<last>> :
        pre \in Preambles,
        p \in SeqsUpTo({<<"NOT", "U8", 0, 1>>, <<"NOT", "U128", 1, 1>>, <<"NOT", "FF", 2, 0>>,
                        <<"EQ", "U8", 0, 1, 1>>, <<"EQ", "FF", 0, 0, 2>>, <<"EQ", "FF", 2, 1, 0>>,
                        <<"SUB", "U8", 1, 0, 1>>}, 2),
        last \in {<<"HALT">>, <<"RETURN", 0, 2>>}}
=============================================================================
