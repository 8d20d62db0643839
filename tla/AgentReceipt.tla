---------------------------- MODULE AgentReceipt ----------------------------
(***************************************************************************)
(* receipt, parseScan and parseAssessment (prompt.go): what an agent's     *)
(* answer is taken to say; and the way of the proposals of a scan into the *)
(* State and back (scan in run.go, ReadState in state.go), where they are  *)
(* validated once more.                                                    *)
(*                                                                         *)
(* A text is a sequence of symbols, fine enough for the search: Word       *)
(* stands for anything else, inside a string for escaped quotes, too.      *)
(***************************************************************************)
EXTENDS Integers, Sequences, FiniteSetsExt

CONSTANTS
    MaxProposals,
    Input         \* bound: texts, each with what the JSON it ends in decodes to

Prefix  == "SIMPLIFY "     \* SIMPLIFY_SCAN or SIMPLIFY_RESULT, with its space
Newline == "newline"
Open    == "{"
Close   == "}"
Quote   == "quote"
Word    == "word"
Symbol  == {Prefix, Newline, Open, Close, Quote, Word}

Words    == {"blank", "plain"}
Statuses == {"pending", "posting", "submitted", "dry_run"}
Proposal == [title       : Words \cup {"long", "two lines"},
             concern     : Words,
             alternative : Words,
             evidence    : Seq(Words),
             subsystems  : Seq({"local", "elsewhere"}),
             requestId   : {"none", "agent's", "32 digits"},
             status      : Statuses \cup {"none", "agent's"}]
Scan       == [summary : Words, isNull : BOOLEAN, proposals : Seq(Proposal)]
Assessment == [decision : {"admit", "decline", "other"},
               summary  : Words \cup {"long"},
               detail   : Words \cup {"long"}]

ASSUME ReceiptAssumption ==
    /\ MaxProposals \in Nat
    /\ \A in \in Input : in[1] \in Seq(Symbol) /\ in[2] \in Scan \cup Assessment

VARIABLES
    text, answer,   \* the agent's text, and what the receipt in it decodes to
    pc,
    line, at,       \* the last line, and how much of it the search has passed
    raw,            \* the JSON the search has found
    saved           \* the proposals in state.json

vars == <<text, answer, pc, line, at, raw, saved>>
Goto(from, to) == pc = from /\ pc' = to
-----------------------------------------------------------------------------
After(l, i) == SubSeq(l, i + 1, Len(l))
Breaks(t)   == {0} \cup {i \in DOMAIN t : t[i] = Newline}

LastLine_Untrimmed(t) == After(t, Max(Breaks(t)))

\* The last line of what TrimSpace leaves of t.
LastLine(t) ==
    LET ink == {i \in DOMAIN t : t[i] # Newline}
    IN  IF ink = {} THEN <<>>
        ELSE SubSeq(t, Max({i \in Breaks(t) : i < Max(ink)}) + 1, Max(ink))

IsString(s) ==
    /\ Len(s) > 1
    /\ \A i \in DOMAIN s : s[i] = Quote <=> i \in {1, Len(s)}
    /\ \A i \in DOMAIN s : s[i] # Newline

\* json.Valid: objects within objects, at most one within each, around a string
\* or nothing.  Keys, colons and further members are left out.
Valid(s) ==
    \E depth \in 0..Len(s) \div 2 :
        LET core == SubSeq(s, depth + 1, Len(s) - depth)
        IN  /\ \A i \in 1..depth : s[i] = Open /\ s[Len(s) + 1 - i] = Close
            /\ IsString(core) \/ (depth > 0 /\ core = <<>>)

IsObject(s) == Valid(s) /\ s[1] = Open
-----------------------------------------------------------------------------
(***************************************************************************)
(* The search of receipt.                                                  *)
(***************************************************************************)
Split ==
    /\ Goto("split", "search")
    /\ line' = LastLine(text)
    /\ UNCHANGED <<text, answer, at, raw, saved>>

IsNext_LastOne(i) ==
    /\ i \in at + 1..Len(line) /\ line[i] = Prefix
    /\ \A j \in i + 1..Len(line) : line[j] # Prefix

\* strings.Cut: the first prefix in what is left of the line.
IsNext(i) ==
    /\ i \in at + 1..Len(line) /\ line[i] = Prefix
    /\ \A j \in at + 1..i - 1 : line[j] # Prefix

Search ==
    /\ pc = "search"
    /\ \E i \in DOMAIN line :
           /\ IsNext(i)
           /\ IF Valid(After(line, i))
              THEN pc' = "decode" /\ raw' = After(line, i) /\ UNCHANGED at
              ELSE at' = i /\ UNCHANGED <<pc, raw>>
    /\ UNCHANGED <<text, answer, line, saved>>

Unfinished ==
    /\ Goto("search", "refused")
    /\ \A i \in at + 1..Len(line) : line[i] # Prefix
    /\ UNCHANGED <<text, answer, line, at, raw, saved>>

\* Only an object can be decoded; one with an unknown field, or a value of
\* another type, is refused.
Decode ==
    /\ pc = "decode"
    /\ \/ raw[1] = Open /\ pc' = "check"
       \/ pc' = "refused"
    /\ UNCHANGED <<text, answer, line, at, raw, saved>>
-----------------------------------------------------------------------------
(***************************************************************************)
(* What the receipt says.                                                  *)
(***************************************************************************)
AdviceTaken ==
    /\ answer \in Assessment
    /\ answer.decision \in {"admit", "decline"}
    /\ answer.summary # "long" /\ answer.detail = "plain"

CheckAssessment ==
    /\ pc = "check" /\ answer \in Assessment
    /\ pc' = IF AdviceTaken THEN "assessed" ELSE "refused"
    /\ UNCHANGED <<text, answer, line, at, raw, saved>>

validateProposal(p) ==
    /\ {p.title, p.concern, p.alternative} = {"plain"}
    /\ \A i \in DOMAIN p.evidence : p.evidence[i] = "plain"
    /\ p.subsystems # <<>>
    /\ \A i \in DOMAIN p.subsystems : p.subsystems[i] = "local"

ScanTaken_OneMore ==
    /\ answer.summary = "plain" /\ ~answer.isNull
    /\ Len(answer.proposals) <= MaxProposals + 1
    /\ \A i \in DOMAIN answer.proposals : validateProposal(answer.proposals[i])

ScanTaken_FirstChecked ==
    /\ answer.summary = "plain" /\ ~answer.isNull
    /\ Len(answer.proposals) <= MaxProposals
    /\ answer.proposals # <<>> => validateProposal(answer.proposals[1])

ScanTaken ==
    /\ answer.summary = "plain" /\ ~answer.isNull
    /\ Len(answer.proposals) <= MaxProposals
    /\ \A i \in DOMAIN answer.proposals : validateProposal(answer.proposals[i])

CheckScan ==
    /\ pc = "check" /\ answer \in Scan
    /\ pc' = IF ScanTaken THEN "record" ELSE "refused"
    /\ UNCHANGED <<text, answer, line, at, raw, saved>>

\* scan numbers the proposals and saves them; requestID may fail.
Record ==
    /\ Goto("record", "saved")
    /\ \E status \in {"dry_run", "pending"} :
           saved' = [i \in DOMAIN answer.proposals |->
                        [answer.proposals[i] EXCEPT !.requestId = "32 digits", !.status = status]]
    /\ UNCHANGED <<text, answer, line, at, raw>>

RecordFails ==
    /\ Goto("record", "refused")
    /\ UNCHANGED <<text, answer, line, at, raw, saved>>

\* scan is about to post a proposal, or has posted it.
File ==
    /\ pc = "saved"
    /\ \E i \in DOMAIN saved :
           \/ /\ saved[i].status = "pending"
              /\ saved' = [saved EXCEPT ![i].status = "posting"]
           \/ /\ saved[i].status = "posting"
              /\ saved' = [saved EXCEPT ![i].status = "submitted"]
    /\ UNCHANGED <<text, answer, pc, line, at, raw>>

Readable(p) == validateProposal(p) /\ p.requestId = "32 digits" /\ p.status \in Statuses

\* The next scan reads the State, in this process or another.
ReadState ==
    /\ pc = "saved"
    /\ pc' = IF \A i \in DOMAIN saved : Readable(saved[i]) THEN "read" ELSE "locked out"
    /\ UNCHANGED <<text, answer, line, at, raw, saved>>

Init ==
    /\ \E in \in Input : text = in[1] /\ answer = in[2]
    /\ pc = "split" /\ line = <<>> /\ at = 0 /\ raw = <<>> /\ saved = <<>>

Next ==
    \/ Split \/ Search \/ Unfinished \/ Decode
    \/ CheckAssessment \/ CheckScan
    \/ Record \/ RecordFails \/ File \/ ReadState

Spec == Init /\ [][Next]_vars
-----------------------------------------------------------------------------
TypeOK ==
    /\ text \in Seq(Symbol) /\ answer \in Scan \cup Assessment
    /\ pc \in {"split", "search", "decode", "check", "record", "saved",
               "read", "assessed", "refused", "locked out"}
    /\ line \in Seq(Symbol) /\ at \in 0..Len(line)
    /\ raw \in Seq(Symbol)
    /\ saved \in Seq(Proposal) /\ Len(saved) <= MaxProposals

\* However often the last line names the prefix, in prose, in strings or within
\* the receipt, the search ends at the outermost receipt the line ends with, and
\* without one only if there is none (prompt.go:94-110).
ReceiptIsOutermost ==
    LET offers == {i \in DOMAIN line : line[i] = Prefix /\ Valid(After(line, i))}
    IN  pc \notin {"split", "search"} =>
            \/ raw = <<>> /\ pc = "refused" /\ offers = {}
            \/ \E i \in offers : raw = After(line, i) /\ \A j \in offers : i <= j

\* An agent that finishes with one JSON object on the last line, after prose
\* without strings or objects on that line, is understood: whatever the prose
\* says of receipts, whatever the object's strings quote, and whatever lines
\* come before or are blank behind it.
FinishedIsUnderstood ==
    \A i \in DOMAIN text : \A j \in i + 1..Len(text) :
        /\ text[i] = Prefix /\ IsObject(SubSeq(text, i + 1, j))
        /\ \A k \in j + 1..Len(text) : text[k] = Newline
        /\ \A k \in 1..i : text[k] \in {Open, Quote} => \E m \in k..i : text[m] = Newline
        /\ pc \notin {"split", "search"}
        => raw = SubSeq(text, i + 1, j)

\* What a scan accepts of an agent and saves, at any stage of its filing, the
\* next ReadState accepts: an answer cannot lock the bot out of its own State.
AcceptedIsReadable == pc # "locked out"
=============================================================================
