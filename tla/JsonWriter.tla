------------------------------ MODULE JsonWriter ------------------------------
(***************************************************************************)
(* The JSON writer of libs/jWrite.c, and the statistics that groundhog     *)
(* writes with it when the function asks for them (dump_stats.me).         *)
(*                                                                         *)
(* A call writes tokens to a buffer of buflen characters and keeps a stack *)
(* of the objects and arrays that are open.  What is in the buffer is      *)
(* given by how a reader of JSON stands at its end: `reader' reads every   *)
(* token as it is written.  Names and values are their lengths, and        *)
(* whether they may stand in a text as they are: jwPutstr copies quotes    *)
(* and backslashes, and modp_dtoa2 writes nan for what is not a number.    *)
(*                                                                         *)
(* There are two clients: one that makes any calls, and the statistics,    *)
(* whose calls are those of write_all_stats_as_json (42 statistics) in a   *)
(* buffer of 16384.  The names of the statistics are literals and their    *)
(* points are counts and times: all of it is plain.                        *)
(***************************************************************************)
EXTENDS Integers, Sequences, SequencesExt

CONSTANTS
    JWRITE_STACK_DEPTH,
    BufLens,                \* the buffers of a client that makes any calls
    Texts,                  \* the names and values it passes: "plain", or
                            \* "raw", with a quote in them or not a number
    GoesOn,                 \* whether it may go on after jwClose
    NStats, StatsBufLen,    \* how many statistics, and their buffer
    NameLen,                \* characters of the longest name of a statistic
    NumberLens              \* characters of a number: modp_dtoa2 gives 1 to 18

ASSUME WriterAssumption ==
    /\ JWRITE_STACK_DEPTH \in Nat \ {0}
    /\ BufLens \subseteq Nat /\ NumberLens \subseteq Nat
    /\ Texts \subseteq {"plain", "raw"} /\ GoesOn \in BOOLEAN
    /\ NStats \in Nat /\ StatsBufLen \in Nat /\ NameLen \in Nat

VARIABLES
    client,         \* "any" or "stats"
    pc,             \* the next call of the statistics
    width,          \* the length of their numbers, in this dump
    buflen, isPretty,
    out,            \* [used, error, reader]: the buffer and the error
    nodeStack,      \* the last is at stackpos
    result          \* what jwClose has returned, "none" before it

vars == <<client, pc, width, buflen, isPretty, out, nodeStack, result>>

Node  == {"object", "array"}
Opener(node) == IF node = "object" THEN "{" ELSE "["
Closer(node) == IF node = "object" THEN "}" ELSE "]"

-------------------------------------------------------------------------------
(* A reader of JSON.  open are the nodes it is in, wants is what it has just *)
(* seen and so what may follow.                                              *)

Bad == [open |-> <<>>, wants |-> "nothing"]

In(r, node) == r.open # <<>> /\ Last(r.open) = node

\* Where a value may be.
ValueMay(r) == r.wants \in {"document", "value"} \/ (r.wants = "first" /\ In(r, "array"))

After(r) == IF r.open = <<>> THEN "end" ELSE "more"

ReadOpener(r, node) ==
    IF ValueMay(r) THEN [open |-> Append(r.open, node), wants |-> "first"] ELSE Bad

ReadCloser(r, node) ==
    IF In(r, node) /\ r.wants \in {"first", "more"}
    THEN LET up == [r EXCEPT !.open = Front(@)] IN [up EXCEPT !.wants = After(up)]
    ELSE Bad

ReadComma(r) ==
    IF r.wants = "more"
    THEN [r EXCEPT !.wants = IF In(r, "object") THEN "key" ELSE "value"] ELSE Bad

\* A raw text leaves no reader where the writer takes it to be.
ReadKey(r, text) ==
    IF text = "plain" /\ (r.wants = "key" \/ (r.wants = "first" /\ In(r, "object")))
    THEN [r EXCEPT !.wants = "colon"] ELSE Bad

ReadColon(r) == IF r.wants = "colon" THEN [r EXCEPT !.wants = "value"] ELSE Bad

ReadValue(r, text) ==
    IF text = "plain" /\ ValueMay(r) THEN [r EXCEPT !.wants = After(r)] ELSE Bad

-------------------------------------------------------------------------------
(* jwPutch, jwPutstr, jwPutraw: a token of n characters, after which a reader *)
(* is r.  A buffer that is full stays full; the error is set whatever it was. *)

Put(o, n, r) ==
    IF o.used + n <= buflen
    THEN [o EXCEPT !.used = @ + n, !.reader = r]
    ELSE [used |-> buflen, error |-> "JWRITE_BUF_FULL", reader |-> Bad]

Quoted(n) == n + 2
Comma(o) == Put(o, 1, ReadComma(o.reader))
Space(o, n) == Put(o, n, o.reader)

\* A new line and four spaces for each of the levels that are open.
jwPretty(o, levels) == IF isPretty THEN Space(o, 1 + 4 * levels) ELSE o

Top == Last(nodeStack)
OK  == out.error = "JWRITE_OK"

\* What _jwObj and _jwArr have in common: the error for the wrong kind of node,
\* or a comma if this is not the first.
Separated(node, wrong) ==
    IF Top.nodeType # node THEN [out EXCEPT !.error = wrong]
    ELSE IF Top.elementNo > 0 THEN Comma(out) ELSE out

Counted(node) ==
    IF Top.nodeType = node
    THEN [nodeStack EXCEPT ![Len(nodeStack)].elementNo = @ + 1] ELSE nodeStack

\* What _jwObj leaves in the buffer, for a key of n characters.
_jwObj(n, text) ==
    LET o1 == jwPretty(Separated("object", "JWRITE_NOT_OBJECT"), Len(nodeStack))
        o2 == Put(o1, Quoted(n), ReadKey(o1.reader, text))
        o3 == Put(o2, 1, ReadColon(o2.reader))
    IN  IF isPretty THEN Space(o3, 1) ELSE o3

\* What _jwArr leaves in it.
_jwArr == jwPretty(Separated("array", "JWRITE_NOT_ARRAY"), Len(nodeStack))

-------------------------------------------------------------------------------
(* The calls. *)

\* Mutant: the count of the elements is not started again.
BugCountGoesOn(stack, node) == Append(stack, [nodeType |-> node, elementNo |-> Last(stack).elementNo])

\* jwPush, where there is room.
Pushed(stack, node) == Append(stack, [nodeType |-> node, elementNo |-> 0])

\* Mutant: nothing is taken off.
BugStays(stack) == stack

\* jwPop, where there is something below.
Popped(stack) == Front(stack)

\* A value of n characters, after _jwObj or _jwArr has left o.
PutValue(node, o, n, text) ==
    /\ out' = IF o.error = "JWRITE_OK" THEN Put(o, n, ReadValue(o.reader, text)) ELSE o
    /\ nodeStack' = Counted(node)

\* An object or array.  It is not pushed on a full stack; that its opener was
\* written before, and may not have fitted, is seen by nobody.
PutNode(node, o, new) ==
    IF o.error # "JWRITE_OK" THEN out' = o /\ nodeStack' = Counted(node)
    ELSE LET put == Put(o, 1, ReadOpener(o.reader, new))
         IN  IF Len(nodeStack) >= JWRITE_STACK_DEPTH
             THEN /\ out' = [put EXCEPT !.error = "JWRITE_STACK_FULL"]
                  /\ nodeStack' = Counted(node)
             ELSE out' = put /\ nodeStack' = Pushed(Counted(node), new)

jwObj_value(k, n, text)  == OK /\ PutValue("object", _jwObj(k, text), n, text)
jwArr_value(n, text)     == OK /\ PutValue("array", _jwArr, n, text)
jwObj_node(k, new, text) == OK /\ PutNode("object", _jwObj(k, text), new)
jwArr_node(new)          == OK /\ PutNode("array", _jwArr, new)

jwEnd ==
    /\ OK
    /\ LET empty == Len(nodeStack) = 1
           popped == IF empty THEN nodeStack ELSE Popped(nodeStack)
           o1 == IF empty THEN [out EXCEPT !.error = "JWRITE_STACK_EMPTY"] ELSE out
           o2 == IF Top.elementNo > 0 THEN jwPretty(o1, Len(popped)) ELSE o1
       IN  /\ nodeStack' = popped
           /\ out' = Put(o2, 1, ReadCloser(o2.reader, Top.nodeType))

\* After an error a call does nothing.
Skipped == ~OK /\ UNCHANGED <<out, nodeStack>>

jwClose ==
    /\ out' = IF ~OK THEN out
              ELSE IF Len(nodeStack) # 1 THEN [out EXCEPT !.error = "JWRITE_NEST_ERROR"]
              ELSE LET o1 == IF isPretty THEN Space(out, 1) ELSE out
                   IN  Put(o1, 1, ReadCloser(o1.reader, Top.nodeType))
    /\ result' = out'.error
    /\ UNCHANGED nodeStack

\* The buffer is cleared and begins with the root.
jwOpen(len, root, pretty) ==
    /\ buflen' = len /\ isPretty' = pretty
    /\ nodeStack' = <<[nodeType |-> root, elementNo |-> 0]>>
    /\ out' = IF len > 0
              THEN [used |-> 1, error |-> "JWRITE_OK",
                    reader |-> [open |-> <<root>>, wants |-> "first"]]
              ELSE [used |-> 0, error |-> "JWRITE_BUF_FULL", reader |-> Bad]
    /\ result' = "none"

-------------------------------------------------------------------------------
(* The clients. *)

Init ==
    /\ client \in {"any", "stats"}
    /\ pc = 0 /\ width = 0
    /\ buflen = 0 /\ isPretty = FALSE
    /\ out = [used |-> 0, error |-> "JWRITE_OK", reader |-> [open |-> <<>>, wants |-> "document"]]
    /\ nodeStack = <<>>
    /\ result = "closed"

AnyOpen ==
    /\ client = "any" /\ result # "none"
    /\ \E len \in BufLens, root \in Node, pretty \in BOOLEAN : jwOpen(len, root, pretty)
    /\ UNCHANGED <<client, pc, width>>

\* No call asks whether the text is closed already.
Writing == result = "none" \/ (GoesOn /\ result # "closed")

AnyInsert ==
    /\ client = "any" /\ Writing
    /\ \/ Skipped \/ jwEnd
       \/ \E text \in Texts : jwObj_value(1, 1, text) \/ jwArr_value(1, text)
       \/ \E node \in Node : jwArr_node(node) \/ \E text \in Texts : jwObj_node(1, node, text)
    /\ result' = "none"
    /\ UNCHANGED <<client, pc, width, buflen, isPretty>>

AnyClose ==
    /\ client = "any" /\ Writing /\ jwClose
    /\ UNCHANGED <<client, pc, width, buflen, isPretty>>

\* begin_json_stats; the numbers of one dump have one length.
BeginDump ==
    /\ client = "stats" /\ pc = 0
    /\ jwOpen(StatsBufLen, "object", TRUE)
    /\ pc' = 1 /\ width' \in NumberLens
    /\ UNCHANGED client

\* "name", "sum", "count", "mean", "min", "max", "stddev"
KeyLens == <<4, 3, 5, 4, 3, 3, 6>>
Fields  == Len(KeyLens)
\* Calls that prep_stats_json makes.
PerStat == Fields + 2

\* jwObj_array("xstats"), then prep_stats_json of each statistic, then jwEnd.
StatsCall ==
    LET field == (pc - 2) % PerStat
    IN  IF pc = 1 THEN jwObj_node(6, "array", "plain")
        ELSE IF pc - 2 = NStats * PerStat \/ field = PerStat - 1 THEN jwEnd
        ELSE IF field = 0 THEN jwArr_node("object")
        ELSE jwObj_value(KeyLens[field], IF field = 1 THEN Quoted(NameLen) ELSE width, "plain")

Dump ==
    /\ client = "stats" /\ pc \in 1..(2 + NStats * PerStat)
    /\ StatsCall \/ Skipped
    /\ pc' = pc + 1
    /\ UNCHANGED <<client, width, buflen, isPretty, result>>

\* end_json_stats; the text is printed.  The function may ask for it again.
EndDump ==
    /\ client = "stats" /\ pc = 3 + NStats * PerStat
    /\ jwClose /\ pc' = 0
    /\ UNCHANGED <<client, width, buflen, isPretty>>

Next == AnyOpen \/ AnyInsert \/ AnyClose \/ BeginDump \/ Dump \/ EndDump

Spec == Init /\ [][Next]_vars

-------------------------------------------------------------------------------
\* If jwClose returns JWRITE_OK the buffer holds one complete JSON value, as
\* jWrite.h:7-8 and 29 say of every client.  It holds of a Careful one, which
\* passes plain names and values and stops at jwClose, whatever else it calls
\* and in any order (jwClose).
ClosedIsJson == result = "JWRITE_OK" => out.reader.wants = "end"

Careful == Texts = {"plain"} /\ ~GoesOn

\* While there is no error, the text of a Careful client is open in just the
\* nodes that are on the stack, and something may be added (jwPush, jwPop,
\* _jwObj, _jwArr).
StackIsText ==
    OK /\ result = "none" =>
        /\ out.reader.open = [k \in DOMAIN nodeStack |-> nodeStack[k].nodeType]
        /\ out.reader.wants = IF Top.elementNo = 0 THEN "first" ELSE "more"

\* The statistics are never cut off, so what is printed is JSON although
\* end_json_stats ignores what jwClose returns (xstats.c:136).
StatsFit == client = "stats" => OK

\* What StatsFit takes: a statistic has at most PerStatLen characters with
\* numbers of w, the first one without the comma; 17 come before the first one
\* and 8 after the last.
PerStatLen(w) == 176 + NameLen + 6 * w
Fits ==
    /\ JWRITE_STACK_DEPTH >= 3
    /\ \A w \in NumberLens : 25 + NStats * PerStatLen(w) <= StatsBufLen
===============================================================================
