--------------------------- MODULE MCAgentReceipt ---------------------------
(* Every text of up to MaxLength symbols, around one good answer; and every   *)
(* answer in which at most one proposal is arbitrary, behind one receipt.     *)
EXTENDS AgentReceipt

CONSTANT MaxLength

Texts == UNION {[1..n -> Symbol] : n \in 0..MaxLength}

Good == [title |-> "plain", concern |-> "plain", alternative |-> "plain",
         evidence |-> <<"plain">>, subsystems |-> <<"local">>,
         requestId |-> "none", status |-> "none"]
Some ==
    [title       : Words \cup {"long", "two lines"},
     concern     : Words,
     alternative : Words,
     evidence    : {<<>>, <<"plain">>, <<"plain", "blank">>},
     subsystems  : {<<>>, <<"local">>, <<"local", "elsewhere">>},
     requestId   : {"none", "agent's"},
     status      : {"none", "agent's"}]
Batches == {<<>>, <<Good, Good, Good>>}
    \cup UNION {{<<p>>, <<Good, p>>, <<p, Good>>} : p \in Some}

Answers == Assessment \cup [summary : Words, isNull : {FALSE}, proposals : Batches]
    \cup {[summary |-> "plain", isNull |-> TRUE, proposals |-> <<>>]}
Usual == [summary |-> "plain", isNull |-> FALSE, proposals |-> <<Good>>]

MCInput ==
    Texts \X {Usual} \cup {<<Prefix, Open, Close>>} \X Answers
=============================================================================
