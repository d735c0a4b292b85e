--------------------------- MODULE JsonWriterProofs ---------------------------
(***************************************************************************)
(* For every Careful client, stack depth and buffer: the text is open in   *)
(* the nodes that are on the writer's stack, and is JSON when jwClose says *)
(* so.                                                                     *)
(*                                                                         *)
(* The statistics are never cut off if there is room for them: what each   *)
(* call writes is added up field by field.                                 *)
(***************************************************************************)
EXTENDS JsonWriter, TLAPS

Errors == {"JWRITE_OK", "JWRITE_BUF_FULL", "JWRITE_NOT_ARRAY", "JWRITE_NOT_OBJECT",
           "JWRITE_STACK_FULL", "JWRITE_STACK_EMPTY", "JWRITE_NEST_ERROR"}
Wants  == {"document", "first", "more", "key", "colon", "value", "end", "nothing"}
Reader == [open : Seq(Node), wants : Wants]
Out    == [used : Nat, error : Errors, reader : Reader]
Entry  == [nodeType : Node, elementNo : Nat]

Types(stack) == [k \in DOMAIN stack |-> stack[k].nodeType]
Stands(stack) == IF Last(stack).elementNo = 0 THEN "first" ELSE "more"

\* A node below another one has that one as an element.
Below(stack) == \A k \in 1..(Len(stack) - 1) : stack[k].elementNo # 0

\* What is in the buffer of o and what is on a stack go together.
Match(o, stack) ==
    o.error = "JWRITE_OK" =>
        /\ Len(stack) >= 1 /\ Below(stack)
        /\ o.reader.open = Types(stack)
        /\ o.reader.wants = Stands(stack)

TypeOK ==
    /\ buflen \in Nat /\ isPretty \in BOOLEAN
    /\ out \in Out
    /\ nodeStack \in Seq(Entry)
    /\ width \in Nat

\* The statistics are between jwOpen and jwClose at every call but the first.
Phase ==
    /\ client = "any" => pc = 0
    /\ client = "stats" /\ pc # 0 => result = "none"

IInv ==
    /\ TypeOK
    /\ Phase
    /\ result = "none" => Match(out, nodeStack)
    /\ result = "JWRITE_OK" => out.reader.wants = "end"

LEMMA ReaderTypes ==
  ASSUME NEW r \in Reader, NEW node \in Node
  PROVE  /\ Bad \in Reader
         /\ ReadOpener(r, node) \in Reader /\ ReadCloser(r, node) \in Reader
         /\ ReadComma(r) \in Reader /\ ReadKey(r, "plain") \in Reader
         /\ ReadColon(r) \in Reader /\ ReadValue(r, "plain") \in Reader
  <1>1. r.open \in Seq(Node) /\ r.wants \in Wants /\ <<>> \in Seq(Node)
    BY DEF Reader
  <1>2. Bad \in Reader
    BY <1>1 DEF Bad, Reader, Wants
  <1>3. ReadOpener(r, node) \in Reader
    <2>1. Append(r.open, node) \in Seq(Node)
      BY <1>1
    <2>2. QED
      BY <1>2, <2>1 DEF ReadOpener, Reader, Wants
  <1>4. ReadCloser(r, node) \in Reader
    <2>1. CASE ~In(r, node)
      BY <1>2, <2>1 DEF ReadCloser
    <2>2. CASE In(r, node)
      <3>1. Front(r.open) \in Seq(Node)
        BY <1>1, <2>2 DEF Front, In
      <3>2. QED
        BY <1>2, <3>1 DEF ReadCloser, Reader, Wants, After
    <2>3. QED
      BY <2>1, <2>2
  <1>5. ReadComma(r) \in Reader /\ ReadKey(r, "plain") \in Reader /\ ReadColon(r) \in Reader
    BY <1>2 DEF ReadComma, ReadKey, ReadColon, Reader, Wants
  <1>6. ReadValue(r, "plain") \in Reader
    BY <1>2 DEF ReadValue, Reader, Wants, After
  <1>7. QED
    BY <1>2, <1>3, <1>4, <1>5, <1>6

\* Nothing puts an error right; without one the reader has read what was put.
LEMMA PutPuts ==
  ASSUME buflen \in Nat, NEW o \in Out, NEW n \in Nat, NEW r \in Reader
  PROVE  /\ Put(o, n, r) \in Out
         /\ Put(o, n, r).error = "JWRITE_OK" => o.error = "JWRITE_OK" /\ Put(o, n, r).reader = r
  <1>1. Bad \in Reader
    BY ReaderTypes DEF Node
  <1>2. o.used \in Nat /\ o.error \in Errors /\ "JWRITE_BUF_FULL" \in Errors
    BY DEF Out, Errors
  <1>3. CASE o.used + n <= buflen
    <2>1. Put(o, n, r) = [used |-> o.used + n, error |-> o.error, reader |-> r]
      BY <1>3 DEF Put, Out
    <2>2. QED
      BY <1>2, <2>1 DEF Out
  <1>4. CASE ~(o.used + n <= buflen)
    <2>1. Put(o, n, r) = [used |-> buflen, error |-> "JWRITE_BUF_FULL", reader |-> Bad]
      BY <1>4 DEF Put
    <2>2. QED
      BY <1>1, <1>2, <2>1 DEF Out
  <1>5. QED
    BY <1>3, <1>4

LEMMA PrettyPuts ==
  ASSUME TypeOK, NEW o \in Out, NEW n \in Nat
  PROVE  /\ jwPretty(o, n) \in Out
         /\ jwPretty(o, n).error = "JWRITE_OK" =>
               o.error = "JWRITE_OK" /\ jwPretty(o, n).reader = o.reader
  <1>1. o.reader \in Reader /\ 1 + 4 * n \in Nat
    BY DEF Out
  <1>2. CASE isPretty
    BY <1>1, <1>2, PutPuts DEF jwPretty, Space, TypeOK
  <1>3. CASE ~isPretty
    BY <1>3 DEF jwPretty
  <1>4. QED
    BY <1>2, <1>3

LEMMA TopOf ==
  ASSUME NEW stack \in Seq(Entry), Len(stack) >= 1
  PROVE  /\ Last(stack) \in Entry /\ Last(stack) = stack[Len(stack)] /\ Len(stack) \in Nat
         /\ Types(stack) \in Seq(Node) /\ Len(Types(stack)) = Len(stack)
         /\ Types(stack) # <<>> /\ Last(Types(stack)) = Last(stack).nodeType
  <1>1. Len(stack) \in Nat /\ DOMAIN stack = 1..Len(stack) /\ Len(stack) \in 1..Len(stack)
    OBVIOUS
  <1>2. Last(stack) = stack[Len(stack)] /\ stack[Len(stack)] \in Entry
    BY <1>1 DEF Last
  <1>3. \A k \in 1..Len(stack) : stack[k].nodeType \in Node
    <2>1. \A k \in 1..Len(stack) : stack[k] \in Entry
      BY <1>1
    <2>2. QED
      BY <2>1 DEF Entry
  <1>4. Types(stack) \in Seq(Node) /\ Len(Types(stack)) = Len(stack)
    BY <1>1, <1>3 DEF Types
  <1>5. Types(stack) # <<>>
    BY <1>1, <1>4
  <1>6. Last(Types(stack)) = Last(stack).nodeType
    BY <1>1, <1>2, <1>4 DEF Last, Types
  <1>7. QED
    BY <1>1, <1>2, <1>4, <1>5, <1>6

\* After what separates it from the one before, the next element may come.
LEMMA SeparatedOK ==
  ASSUME TypeOK, OK, Match(out, nodeStack), NEW node \in Node, NEW wrong \in Errors \ {"JWRITE_OK"}
  PROVE  LET o == Separated(node, wrong)
         IN  /\ o \in Out
             /\ o.error = "JWRITE_OK" =>
                   /\ Top.nodeType = node
                   /\ o.reader.open = Types(nodeStack)
                   /\ o.reader.wants = IF Top.elementNo = 0 THEN "first"
                                       ELSE IF node = "object" THEN "key" ELSE "value"
  <1>1. /\ Len(nodeStack) >= 1 /\ out.reader.open = Types(nodeStack)
        /\ out.reader.wants = Stands(nodeStack)
    BY DEF OK, Match
  <1>2. /\ Top \in Entry /\ Types(nodeStack) # <<>>
        /\ Last(Types(nodeStack)) = Top.nodeType
    BY <1>1, TopOf DEF TypeOK, Top
  <1>3. out.reader \in Reader /\ Top.elementNo \in Nat /\ ReadComma(out.reader) \in Reader
    BY <1>2, ReaderTypes DEF TypeOK, Out, Entry
  <1>4. CASE Top.nodeType # node
    BY <1>4 DEF Separated, TypeOK, Out
  <1>5. CASE Top.nodeType = node /\ Top.elementNo = 0
    BY <1>1, <1>5 DEF Separated, TypeOK, Stands, Top
  <1>6. CASE Top.nodeType = node /\ Top.elementNo # 0
    <2>1. Separated(node, wrong) = Put(out, 1, ReadComma(out.reader))
      BY <1>3, <1>6 DEF Separated, Comma
    <2>2. out.reader.wants = "more" /\ (In(out.reader, "object") <=> node = "object")
      BY <1>1, <1>2, <1>6 DEF Stands, Top, In
    <2>3. ReadComma(out.reader) =
            [out.reader EXCEPT !.wants = IF node = "object" THEN "key" ELSE "value"]
      BY <2>2 DEF ReadComma
    <2> DEFINE o == Separated(node, wrong)
    <2>4. o \in Out /\ (o.error = "JWRITE_OK" => o.reader = ReadComma(out.reader))
      <3>1. buflen \in Nat /\ out \in Out /\ 1 \in Nat
        BY DEF TypeOK
      <3>2. /\ Put(out, 1, ReadComma(out.reader)) \in Out
            /\ Put(out, 1, ReadComma(out.reader)).error = "JWRITE_OK" =>
                  Put(out, 1, ReadComma(out.reader)).reader = ReadComma(out.reader)
        BY <1>3, <3>1, PutPuts
      <3>3. QED
        BY <2>1, <3>2
    <2>5. /\ ReadComma(out.reader).open = Types(nodeStack)
          /\ ReadComma(out.reader).wants = IF node = "object" THEN "key" ELSE "value"
      BY <1>1, <1>3, <2>3 DEF Reader
    <2>6. QED
      BY <1>6, <2>4, <2>5
  <1>7. QED
    BY <1>4, <1>5, <1>6

\* _jwObj leaves an object that waits for a value.
LEMMA ObjOK ==
  ASSUME TypeOK, OK, Match(out, nodeStack), NEW n \in Nat
  PROVE  /\ _jwObj(n, "plain") \in Out
         /\ _jwObj(n, "plain").error = "JWRITE_OK" =>
               /\ Top.nodeType = "object"
               /\ _jwObj(n, "plain").reader.open = Types(nodeStack)
               /\ _jwObj(n, "plain").reader.wants = "value"
  <1> DEFINE o0 == Separated("object", "JWRITE_NOT_OBJECT")
             o1 == jwPretty(o0, Len(nodeStack))
             o2 == Put(o1, Quoted(n), ReadKey(o1.reader, "plain"))
             o3 == Put(o2, 1, ReadColon(o2.reader))
             o4 == IF isPretty THEN Space(o3, 1) ELSE o3
  <1>0. _jwObj(n, "plain") = o4
    BY DEF _jwObj
  <1>1. Len(nodeStack) \in Nat /\ Quoted(n) \in Nat /\ 1 \in Nat /\ buflen \in Nat
    BY DEF TypeOK, Quoted
  <1>2. Len(nodeStack) >= 1
    BY DEF OK, Match
  <1>3. /\ o0 \in Out
        /\ o0.error = "JWRITE_OK" =>
              /\ Top.nodeType = "object"
              /\ o0.reader.open = Types(nodeStack)
              /\ o0.reader.wants \in {"first", "key"}
    <2>1. "object" \in Node /\ "JWRITE_NOT_OBJECT" \in Errors \ {"JWRITE_OK"}
      BY DEF Node, Errors
    <2>2. QED
      BY <2>1, SeparatedOK
  <1> HIDE DEF o0
  <1>4. o1 \in Out /\ (o1.error = "JWRITE_OK" => o0.error = "JWRITE_OK" /\ o1.reader = o0.reader)
    BY <1>1, <1>3, PrettyPuts
  <1> HIDE DEF o1
  <1>5. o1.reader \in Reader /\ ReadKey(o1.reader, "plain") \in Reader
    BY <1>4, ReaderTypes DEF Out, Node
  <1>6. /\ o2 \in Out
        /\ o2.error = "JWRITE_OK" =>
             o1.error = "JWRITE_OK" /\ o2.reader = ReadKey(o1.reader, "plain")
    BY <1>1, <1>4, <1>5, PutPuts
  <1> HIDE DEF o2
  <1>7. o2.reader \in Reader /\ ReadColon(o2.reader) \in Reader
    BY <1>6, ReaderTypes DEF Out, Node
  <1>8. /\ o3 \in Out
        /\ o3.error = "JWRITE_OK" =>
             o2.error = "JWRITE_OK" /\ o3.reader = ReadColon(o2.reader)
    BY <1>1, <1>6, <1>7, PutPuts
  <1> HIDE DEF o3
  <1>9. o4 \in Out /\ (o4.error = "JWRITE_OK" => o3.error = "JWRITE_OK" /\ o4.reader = o3.reader)
    <2>1. o3.reader \in Reader
      BY <1>8 DEF Out
    <2>2. QED
      BY <1>1, <1>8, <2>1, PutPuts DEF Space
  <1> HIDE DEF o4
  <1>10. ASSUME o4.error = "JWRITE_OK"
         PROVE  /\ Top.nodeType = "object" /\ o4.reader.open = Types(nodeStack)
                /\ o4.reader.wants = "value"
    <2>1. /\ Top.nodeType = "object"
          /\ o1.reader.open = Types(nodeStack) /\ o1.reader.wants \in {"first", "key"}
          /\ o4.reader = ReadColon(o2.reader) /\ o2.reader = ReadKey(o1.reader, "plain")
      BY <1>3, <1>4, <1>6, <1>8, <1>9, <1>10
    <2>2. In(o1.reader, "object")
      BY <1>2, <2>1, TopOf DEF TypeOK, In, Top
    <2>3. o2.reader = [o1.reader EXCEPT !.wants = "colon"]
      BY <2>1, <2>2 DEF ReadKey
    <2>4. o2.reader.open = Types(nodeStack) /\ o2.reader.wants = "colon"
      BY <1>5, <2>1, <2>3 DEF Reader
    <2>5. o4.reader = [o2.reader EXCEPT !.wants = "value"]
      BY <2>1, <2>4 DEF ReadColon
    <2>6. QED
      BY <1>7, <2>1, <2>4, <2>5 DEF Reader
  <1>11. QED
    BY <1>0, <1>9, <1>10

\* _jwArr leaves an array in which a value may come.
LEMMA ArrOK ==
  ASSUME TypeOK, OK, Match(out, nodeStack)
  PROVE  /\ _jwArr \in Out
         /\ _jwArr.error = "JWRITE_OK" =>
               /\ Top.nodeType = "array"
               /\ _jwArr.reader.open = Types(nodeStack)
               /\ ValueMay(_jwArr.reader)
  <1> DEFINE o0 == Separated("array", "JWRITE_NOT_ARRAY")
  <1>1. Len(nodeStack) \in Nat /\ Len(nodeStack) >= 1
    BY DEF TypeOK, OK, Match
  <1>2. /\ o0 \in Out
        /\ o0.error = "JWRITE_OK" =>
              /\ Top.nodeType = "array"
              /\ o0.reader.open = Types(nodeStack)
              /\ o0.reader.wants \in {"first", "value"}
    <2>1. "array" \in Node /\ "JWRITE_NOT_ARRAY" \in Errors \ {"JWRITE_OK"} /\ "array" # "object"
      BY DEF Node, Errors
    <2>2. QED
      BY <2>1, SeparatedOK
  <1> HIDE DEF o0
  <1>3. /\ _jwArr \in Out
        /\ _jwArr.error = "JWRITE_OK" => o0.error = "JWRITE_OK" /\ _jwArr.reader = o0.reader
    BY <1>1, <1>2, PrettyPuts DEF _jwArr, o0
  <1>4. QED
    BY <1>1, <1>2, <1>3, TopOf DEF ValueMay, In, Top, TypeOK

\* The stack with one more element in its last node.
LEMMA CountedOK ==
  ASSUME TypeOK, Len(nodeStack) >= 1, NEW node \in Node
  PROVE  /\ Counted(node) \in Seq(Entry) /\ Len(Counted(node)) = Len(nodeStack)
         /\ Types(Counted(node)) = Types(nodeStack)
         /\ Below(nodeStack) => Below(Counted(node))
         /\ Top.nodeType = node => Stands(Counted(node)) = "more"
  <1>1. /\ nodeStack \in Seq(Entry) /\ Top \in Entry /\ Top = nodeStack[Len(nodeStack)]
        /\ Len(nodeStack) \in 1..Len(nodeStack) /\ DOMAIN nodeStack = 1..Len(nodeStack)
    BY TopOf DEF TypeOK, Top
  <1>2. CASE Top.nodeType = node
    <2> DEFINE new == [Top EXCEPT !.elementNo = @ + 1]
    <2>1. Counted(node) = [nodeStack EXCEPT ![Len(nodeStack)] = new]
      BY <1>1, <1>2 DEF Counted
    <2>2. new \in Entry /\ new.nodeType = Top.nodeType /\ new.elementNo # 0
      BY <1>1 DEF Entry
    <2>3. /\ Counted(node) \in Seq(Entry) /\ Len(Counted(node)) = Len(nodeStack)
          /\ DOMAIN Counted(node) = DOMAIN nodeStack
          /\ Counted(node)[Len(nodeStack)] = new
          /\ \A k \in DOMAIN nodeStack : k # Len(nodeStack) => Counted(node)[k] = nodeStack[k]
      BY <1>1, <2>1, <2>2
    <2>4. Types(Counted(node)) = Types(nodeStack)
      BY <1>1, <2>2, <2>3 DEF Types
    <2>5. Stands(Counted(node)) = "more"
      BY <2>2, <2>3 DEF Stands, Last
    <2>6. Below(nodeStack) => Below(Counted(node))
      BY <1>1, <2>3 DEF Below
    <2>7. QED
      BY <2>3, <2>4, <2>5, <2>6
  <1>3. CASE Top.nodeType # node
    BY <1>1, <1>3 DEF Counted
  <1>4. QED
    BY <1>2, <1>3

\* A buffer in which a value may come, in a node of this kind.
Ready(o, node) ==
    /\ o \in Out
    /\ o.error = "JWRITE_OK" =>
          /\ Top.nodeType = node
          /\ o.reader.open = Types(nodeStack)
          /\ ValueMay(o.reader)

LEMMA PutValueOK ==
  ASSUME TypeOK, OK, Match(out, nodeStack), NEW node \in Node, NEW n \in Nat,
         NEW o, Ready(o, node), PutValue(node, o, n, "plain")
  PROVE  out' \in Out /\ nodeStack' \in Seq(Entry) /\ Match(out', nodeStack')
  <1>1. Len(nodeStack) \in Nat /\ Len(nodeStack) >= 1 /\ o \in Out /\ o.reader \in Reader
    BY DEF TypeOK, OK, Match, Ready, Out
  <1>2. /\ nodeStack' \in Seq(Entry) /\ Len(nodeStack') = Len(nodeStack)
        /\ Types(nodeStack') = Types(nodeStack) /\ Below(nodeStack')
        /\ Top.nodeType = node => Stands(nodeStack') = "more"
    BY <1>1, CountedOK DEF PutValue, OK, Match
  <1>3. CASE o.error # "JWRITE_OK"
    BY <1>1, <1>2, <1>3 DEF PutValue, Match
  <1>4. CASE o.error = "JWRITE_OK"
    <2> DEFINE put == Put(o, n, ReadValue(o.reader, "plain"))
    <2>1. ReadValue(o.reader, "plain") \in Reader /\ buflen \in Nat
      BY <1>1, ReaderTypes DEF Node, TypeOK
    <2>2. put \in Out /\ (put.error = "JWRITE_OK" => put.reader = ReadValue(o.reader, "plain"))
      BY <1>1, <2>1, PutPuts
    <2>3. out' = put
      BY <1>4 DEF PutValue
    <2>4. Types(nodeStack) # <<>>
      BY <1>1, TopOf DEF TypeOK
    <2>5. ReadValue(o.reader, "plain") = [o.reader EXCEPT !.wants = "more"]
      BY <1>4, <2>4 DEF Ready, ReadValue, After
    <2>6. ReadValue(o.reader, "plain").open = Types(nodeStack) /\ ReadValue(o.reader, "plain").wants = "more"
      BY <1>1, <1>4, <2>5 DEF Ready, Reader
    <2>7. QED
      BY <1>1, <1>2, <1>4, <2>2, <2>3, <2>6 DEF Match, Ready
  <1>5. QED
    BY <1>3, <1>4

LEMMA PushedOK ==
  ASSUME NEW stack \in Seq(Entry), NEW node \in Node
  PROVE  /\ Pushed(stack, node) \in Seq(Entry) /\ Len(Pushed(stack, node)) = Len(stack) + 1
         /\ Types(Pushed(stack, node)) = Append(Types(stack), node)
         /\ Stands(Pushed(stack, node)) = "first"
         /\ Below(stack) /\ Stands(stack) = "more" => Below(Pushed(stack, node))
  <1> DEFINE new == [nodeType |-> node, elementNo |-> 0]
  <1>1. /\ new \in Entry /\ Pushed(stack, node) = Append(stack, new)
        /\ Len(stack) \in Nat /\ DOMAIN stack = 1..Len(stack)
        /\ \A k \in 1..Len(stack) : stack[k] \in Entry
    <2>1. new \in Entry /\ Pushed(stack, node) = Append(stack, new)
      BY DEF Pushed, Entry
    <2>2. /\ Len(stack) \in Nat /\ DOMAIN stack = 1..Len(stack)
          /\ \A k \in 1..Len(stack) : stack[k] \in Entry
      OBVIOUS
    <2>3. QED
      BY <2>1, <2>2
  <1>2. /\ Append(stack, new) \in Seq(Entry) /\ Len(Append(stack, new)) = Len(stack) + 1
        /\ Append(stack, new)[Len(stack) + 1] = new
        /\ \A k \in 1..Len(stack) : Append(stack, new)[k] = stack[k]
        /\ DOMAIN Append(stack, new) = 1..(Len(stack) + 1)
    BY <1>1
  <1>3. Types(stack) \in Seq(Node) /\ Len(Types(stack)) = Len(stack)
    BY <1>1 DEF Types, Entry
  <1>4. Types(Append(stack, new)) = [k \in 1..(Len(stack) + 1) |-> Append(stack, new)[k].nodeType]
    BY <1>2 DEF Types
  <1>5. Append(Types(stack), node)
          = [k \in 1..(Len(stack) + 1) |-> IF k = Len(stack) + 1 THEN node ELSE stack[k].nodeType]
    BY <1>1, <1>3 DEF Types
  <1>6. \A k \in 1..(Len(stack) + 1) :
           Append(stack, new)[k].nodeType = IF k = Len(stack) + 1 THEN node ELSE stack[k].nodeType
    BY <1>1, <1>2
  <1>7. Types(Append(stack, new)) = Append(Types(stack), node)
    BY <1>4, <1>5, <1>6
  <1>8. Stands(Append(stack, new)) = "first"
    BY <1>2 DEF Stands, Last
  <1>9. Below(stack) /\ Stands(stack) = "more" => Below(Append(stack, new))
    BY <1>1, <1>2 DEF Below, Stands, Last
  <1>10. QED
    BY <1>1, <1>2, <1>7, <1>8, <1>9

LEMMA PutNodeOK ==
  ASSUME TypeOK, OK, Match(out, nodeStack), NEW node \in Node, NEW new \in Node,
         NEW o, Ready(o, node), PutNode(node, o, new)
  PROVE  out' \in Out /\ nodeStack' \in Seq(Entry) /\ Match(out', nodeStack')
  <1>1. Len(nodeStack) \in Nat /\ Len(nodeStack) >= 1 /\ o \in Out /\ o.reader \in Reader
    BY DEF TypeOK, OK, Match, Ready, Out
  <1>2. /\ Counted(node) \in Seq(Entry) /\ Len(Counted(node)) = Len(nodeStack)
        /\ Types(Counted(node)) = Types(nodeStack) /\ Below(Counted(node))
        /\ Top.nodeType = node => Stands(Counted(node)) = "more"
    BY <1>1, CountedOK DEF OK, Match
  <1>3. CASE o.error # "JWRITE_OK"
    BY <1>1, <1>2, <1>3 DEF PutNode, Match
  <1>4. CASE o.error = "JWRITE_OK"
    <2> DEFINE put == Put(o, 1, ReadOpener(o.reader, new))
    <2>1. ReadOpener(o.reader, new) \in Reader /\ buflen \in Nat /\ 1 \in Nat
      BY <1>1, ReaderTypes DEF TypeOK
    <2>2. put \in Out /\ (put.error = "JWRITE_OK" => put.reader = ReadOpener(o.reader, new))
      BY <1>1, <2>1, PutPuts
    <2>3. ReadOpener(o.reader, new) = [open |-> Append(Types(nodeStack), new), wants |-> "first"]
      BY <1>4 DEF Ready, ReadOpener
    <2> HIDE DEF put
    <2>4. CASE Len(nodeStack) >= JWRITE_STACK_DEPTH
      <3>1. out' = [put EXCEPT !.error = "JWRITE_STACK_FULL"] /\ nodeStack' = Counted(node)
        BY <1>4, <2>4 DEF PutNode, put
      <3>2. out' \in Out /\ out'.error # "JWRITE_OK"
        BY <2>2, <3>1 DEF Out, Errors
      <3>3. QED
        BY <1>2, <3>1, <3>2 DEF Match
    <2>5. CASE ~(Len(nodeStack) >= JWRITE_STACK_DEPTH)
      <3>1. out' = put /\ nodeStack' = Pushed(Counted(node), new)
        BY <1>4, <2>5 DEF PutNode, put
      <3>2. /\ nodeStack' \in Seq(Entry) /\ Len(nodeStack') = Len(nodeStack) + 1
            /\ Types(nodeStack') = Append(Types(nodeStack), new)
            /\ Stands(nodeStack') = "first" /\ Below(nodeStack')
        BY <1>2, <1>4, <3>1, PushedOK DEF Ready
      <3>3. QED
        BY <1>1, <2>2, <2>3, <3>1, <3>2 DEF Match
    <2>6. QED
      BY <2>4, <2>5
  <1>5. QED
    BY <1>3, <1>4

LEMMA ReadyObj ==
  ASSUME TypeOK, OK, Match(out, nodeStack), NEW n \in Nat
  PROVE  Ready(_jwObj(n, "plain"), "object")
  BY ObjOK DEF Ready, ValueMay

LEMMA ReadyArr ==
  ASSUME TypeOK, OK, Match(out, nodeStack)
  PROVE  Ready(_jwArr, "array")
  BY ArrOK DEF Ready

LEMMA PoppedOK ==
  ASSUME NEW stack \in Seq(Entry), Len(stack) >= 2, Below(stack)
  PROVE  /\ Popped(stack) \in Seq(Entry) /\ Len(Popped(stack)) = Len(stack) - 1
         /\ Types(Popped(stack)) = Front(Types(stack))
         /\ Stands(Popped(stack)) = "more" /\ Below(Popped(stack))
         /\ Front(Types(stack)) # <<>>
  <1>1. Len(stack) \in Nat /\ DOMAIN stack = 1..Len(stack)
    OBVIOUS
  <1>2. /\ Popped(stack) \in Seq(Entry) /\ Len(Popped(stack)) = Len(stack) - 1
        /\ DOMAIN Popped(stack) = 1..(Len(stack) - 1)
        /\ \A k \in 1..(Len(stack) - 1) : Popped(stack)[k] = stack[k]
    BY <1>1 DEF Popped, Front
  <1>3. Types(stack) \in Seq(Node) /\ Len(Types(stack)) = Len(stack)
    BY <1>1, TopOf
  <1>4. Front(Types(stack)) = [k \in 1..(Len(stack) - 1) |-> stack[k].nodeType]
    BY <1>1, <1>3 DEF Front, Types
  <1>5. Types(Popped(stack)) = Front(Types(stack))
    BY <1>2, <1>4 DEF Types
  <1>6. Stands(Popped(stack)) = "more"
    BY <1>1, <1>2 DEF Stands, Last, Below
  <1>7. Below(Popped(stack))
    BY <1>1, <1>2 DEF Below
  <1>8. Front(Types(stack)) # <<>>
    <2>1. Len(Front(Types(stack))) = Len(stack) - 1
      BY <1>2, <1>4, <1>5
    <2>2. Len(<<>>) = 0
      OBVIOUS
    <2>3. QED
      BY <1>1, <2>1, <2>2
  <1>9. QED
    BY <1>2, <1>5, <1>6, <1>7, <1>8

LEMMA EndOK ==
  ASSUME TypeOK, OK, Match(out, nodeStack), jwEnd
  PROVE  out' \in Out /\ nodeStack' \in Seq(Entry) /\ Match(out', nodeStack')
  <1> DEFINE empty == Len(nodeStack) = 1
             popped == IF empty THEN nodeStack ELSE Popped(nodeStack)
             o1 == IF empty THEN [out EXCEPT !.error = "JWRITE_STACK_EMPTY"] ELSE out
             o2 == IF Top.elementNo > 0 THEN jwPretty(o1, Len(popped)) ELSE o1
  <1>1. nodeStack' = popped /\ out' = Put(o2, 1, ReadCloser(o2.reader, Top.nodeType))
    BY DEF jwEnd
  <1>2. /\ nodeStack \in Seq(Entry) /\ Len(nodeStack) \in Nat /\ Len(nodeStack) >= 1
        /\ Below(nodeStack) /\ buflen \in Nat /\ out \in Out /\ 1 \in Nat
        /\ out.reader.open = Types(nodeStack) /\ out.reader.wants = Stands(nodeStack)
    BY DEF TypeOK, OK, Match
  <1>3. ~empty => Len(nodeStack) >= 2
    <2>1. Len(nodeStack) \in Nat /\ Len(nodeStack) >= 1
      BY <1>2
    <2>2. \A n \in Nat : n >= 1 /\ n # 1 => n >= 2
      OBVIOUS
    <2>3. QED
      BY <2>1, <2>2
  <1>4. /\ Top.nodeType \in Node /\ Types(nodeStack) # <<>>
        /\ Last(Types(nodeStack)) = Top.nodeType
    BY <1>2, TopOf DEF Top, Entry
  <1>5. popped \in Seq(Entry) /\ Len(popped) \in Nat
    <2>1. CASE empty
      BY <1>2, <2>1
    <2>2. CASE ~empty
      <3>1. Len(nodeStack) >= 2
        BY <1>3, <2>2
      <3>2. Popped(nodeStack) \in Seq(Entry)
        BY <1>2, <3>1, PoppedOK
      <3>3. QED
        BY <2>2, <3>2
    <2>3. QED
      BY <2>1, <2>2
  <1>6. o1 \in Out /\ (o1.error = "JWRITE_OK" => ~empty /\ o1 = out)
    BY <1>2 DEF Out, Errors
  <1> HIDE DEF o1
  <1>7. o2 \in Out /\ (o2.error = "JWRITE_OK" => o1.error = "JWRITE_OK" /\ o2.reader = o1.reader)
    BY <1>5, <1>6, PrettyPuts
  <1> HIDE DEF o2, popped
  <1>8. ReadCloser(o2.reader, Top.nodeType) \in Reader
    BY <1>4, <1>7, ReaderTypes DEF Out
  <1>9. /\ out' \in Out
        /\ out'.error = "JWRITE_OK" => o2.error = "JWRITE_OK" /\
              out'.reader = ReadCloser(o2.reader, Top.nodeType)
    BY <1>1, <1>2, <1>7, <1>8, PutPuts
  <1>10. ASSUME out'.error = "JWRITE_OK" PROVE Match(out', nodeStack')
    <2>1. ~empty /\ o2.reader = out.reader /\ out'.reader = ReadCloser(out.reader, Top.nodeType)
      BY <1>6, <1>7, <1>9, <1>10
    <2>2. In(out.reader, Top.nodeType) /\ out.reader.wants \in {"first", "more"}
      BY <1>2, <1>4 DEF In, Stands
    <2>3. out.reader \in Reader
      BY <1>2 DEF Out
    <2> DEFINE up == [out.reader EXCEPT !.open = Front(@)]
    <2>4. out'.reader = [up EXCEPT !.wants = After(up)] /\ up.open = Front(Types(nodeStack))
      BY <1>2, <2>1, <2>2, <2>3 DEF ReadCloser, Reader
    <2>5. nodeStack' = Popped(nodeStack) /\ Len(nodeStack) >= 2
      <3>1. Len(nodeStack) # 1
        BY <2>1
      <3>2. popped = Popped(nodeStack)
        BY <3>1 DEF popped
      <3>3. QED
        BY <1>1, <1>3, <3>1, <3>2
    <2>6. After(up) = "more"
      BY <1>2, <2>4, <2>5, PoppedOK DEF After
    <2>7. out'.reader.open = Types(nodeStack') /\ out'.reader.wants = Stands(nodeStack')
      BY <1>2, <2>3, <2>4, <2>5, <2>6, PoppedOK DEF Reader
    <2>8. QED
      BY <1>2, <2>5, <2>7, PoppedOK DEF Match
  <1>11. QED
    BY <1>1, <1>5, <1>9, <1>10 DEF Match

LEMMA CloseOK ==
  ASSUME TypeOK, Match(out, nodeStack), jwClose
  PROVE  /\ out' \in Out /\ UNCHANGED nodeStack /\ result' # "none"
         /\ result' = "JWRITE_OK" => out'.reader.wants = "end"
  <1>1. result' = out'.error /\ UNCHANGED nodeStack
    BY DEF jwClose
  <1>2. CASE ~OK
    <2>1. out' = out /\ out.error # "JWRITE_OK"
      BY <1>2 DEF jwClose, OK
    <2>2. QED
      BY <1>1, <2>1 DEF TypeOK, Out, Errors
  <1>3. CASE OK /\ Len(nodeStack) # 1
    <2>1. out' = [out EXCEPT !.error = "JWRITE_NEST_ERROR"]
      BY <1>3 DEF jwClose
    <2>2. QED
      BY <1>1, <2>1 DEF TypeOK, Out, Errors
  <1>4. CASE OK /\ Len(nodeStack) = 1
    <2> DEFINE o1 == IF isPretty THEN Space(out, 1) ELSE out
    <2>1. out' = Put(o1, 1, ReadCloser(o1.reader, Top.nodeType))
      BY <1>4 DEF jwClose
    <2>2. /\ buflen \in Nat /\ 1 \in Nat /\ out \in Out /\ out.reader \in Reader
          /\ nodeStack \in Seq(Entry) /\ Len(nodeStack) >= 1
      BY <1>4 DEF TypeOK, Out
    <2>3. /\ Top.nodeType \in Node /\ Types(nodeStack) # <<>> /\ Types(nodeStack) \in Seq(Node)
          /\ Last(Types(nodeStack)) = Top.nodeType /\ Len(Types(nodeStack)) = 1
      BY <1>4, <2>2, TopOf DEF Top, Entry
    <2>4. o1 \in Out /\ (o1.error = "JWRITE_OK" => o1.reader = out.reader)
      BY <2>2, PutPuts DEF Space
    <2> HIDE DEF o1
    <2>5. ReadCloser(o1.reader, Top.nodeType) \in Reader
      BY <2>3, <2>4, ReaderTypes DEF Out
    <2>6. /\ out' \in Out
          /\ out'.error = "JWRITE_OK" => o1.error = "JWRITE_OK" /\
                out'.reader = ReadCloser(o1.reader, Top.nodeType)
      BY <2>1, <2>2, <2>4, <2>5, PutPuts
    <2>7. ASSUME out'.error = "JWRITE_OK" PROVE out'.reader.wants = "end"
      <3>1. out'.reader = ReadCloser(out.reader, Top.nodeType)
        BY <2>4, <2>6, <2>7
      <3>2. out.reader.open = Types(nodeStack) /\ out.reader.wants \in {"first", "more"}
        BY <1>4 DEF OK, Match, Stands
      <3>3. In(out.reader, Top.nodeType)
        BY <2>3, <3>2 DEF In
      <3> DEFINE up == [out.reader EXCEPT !.open = Front(@)]
      <3>4. out'.reader = [up EXCEPT !.wants = After(up)] /\ up.open = Front(Types(nodeStack))
        BY <2>2, <3>1, <3>2, <3>3 DEF ReadCloser, Reader
      <3>5. Front(Types(nodeStack)) = <<>>
        BY <2>3 DEF Front
      <3>6. After(up) = "end"
        BY <3>4, <3>5 DEF After
      <3>7. QED
        BY <2>2, <3>4, <3>6 DEF Reader
    <2>8. result' # "none"
      BY <1>1, <2>6 DEF Out, Errors
    <2>9. QED
      BY <1>1, <2>6, <2>7, <2>8
  <1>5. QED
    BY <1>2, <1>3, <1>4

LEMMA OpenOK ==
  ASSUME NEW len \in Nat, NEW root \in Node, NEW pretty \in BOOLEAN, jwOpen(len, root, pretty)
  PROVE  /\ buflen' \in Nat /\ isPretty' \in BOOLEAN /\ out' \in Out
         /\ nodeStack' \in Seq(Entry) /\ result' = "none" /\ Match(out', nodeStack')
  <1> DEFINE e == [nodeType |-> root, elementNo |-> 0]
  <1>1. nodeStack' = <<e>> /\ e \in Entry /\ result' = "none" /\ buflen' = len /\ isPretty' = pretty
    BY DEF jwOpen, Entry
  <1>2. <<e>> \in Seq(Entry) /\ Len(<<e>>) = 1 /\ <<e>>[1] = e /\ DOMAIN <<e>> = 1..1
    BY <1>1
  <1>3. CASE len > 0
    <2>1. out' = [used |-> 1, error |-> "JWRITE_OK",
                  reader |-> [open |-> <<root>>, wants |-> "first"]]
      BY <1>3 DEF jwOpen
    <2>2. <<root>> \in Seq(Node) /\ <<root>> = [k \in 1..1 |-> root]
      OBVIOUS
    <2>3. out' \in Out
      BY <2>1, <2>2 DEF Out, Errors, Reader, Wants
    <2>4. Types(<<e>>) = <<root>> /\ Stands(<<e>>) = "first" /\ Below(<<e>>)
      BY <1>2, <2>2 DEF Types, Stands, Last, Below
    <2>5. QED
      BY <1>1, <1>2, <2>1, <2>3, <2>4 DEF Match
  <1>4. CASE ~(len > 0)
    <2>1. out' = [used |-> 0, error |-> "JWRITE_BUF_FULL", reader |-> Bad]
      BY <1>4 DEF jwOpen
    <2>2. <<>> \in Seq(Node)
      OBVIOUS
    <2>3. Bad \in Reader
      BY <2>2 DEF Bad, Reader, Wants
    <2>4. QED
      BY <1>1, <1>2, <2>1, <2>3 DEF Match, Out, Errors
  <1>5. QED
    BY <1>3, <1>4

LEMMA InsertOK ==
  ASSUME IInv, result = "none",
         \/ Skipped \/ jwEnd
         \/ \E k, n \in Nat : jwObj_value(k, n, "plain")
         \/ \E n \in Nat : jwArr_value(n, "plain")
         \/ \E k \in Nat, node \in Node : jwObj_node(k, node, "plain")
         \/ \E node \in Node : jwArr_node(node)
  PROVE  out' \in Out /\ nodeStack' \in Seq(Entry) /\ Match(out', nodeStack')
  <1>1. TypeOK /\ Match(out, nodeStack)
    BY DEF IInv
  <1>2. CASE Skipped
    BY <1>1, <1>2 DEF Skipped, TypeOK
  <1>3. CASE jwEnd
    BY <1>1, <1>3, EndOK DEF jwEnd
  <1>4. CASE \E k, n \in Nat : jwObj_value(k, n, "plain")
    <2>1. PICK k \in Nat, n \in Nat : jwObj_value(k, n, "plain")
      BY <1>4
    <2>2. OK /\ PutValue("object", _jwObj(k, "plain"), n, "plain") /\ "object" \in Node
      BY <2>1 DEF jwObj_value, Node
    <2>3. Ready(_jwObj(k, "plain"), "object")
      BY <1>1, <2>2, ReadyObj
    <2>4. QED
      BY <1>1, <2>2, <2>3, PutValueOK
  <1>5. CASE \E n \in Nat : jwArr_value(n, "plain")
    <2>1. PICK n \in Nat : jwArr_value(n, "plain")
      BY <1>5
    <2>2. OK /\ PutValue("array", _jwArr, n, "plain") /\ "array" \in Node
      BY <2>1 DEF jwArr_value, Node
    <2>3. Ready(_jwArr, "array")
      BY <1>1, <2>2, ReadyArr
    <2>4. QED
      BY <1>1, <2>2, <2>3, PutValueOK
  <1>6. CASE \E k \in Nat, node \in Node : jwObj_node(k, node, "plain")
    <2>1. PICK k \in Nat, node \in Node : jwObj_node(k, node, "plain")
      BY <1>6
    <2>2. OK /\ PutNode("object", _jwObj(k, "plain"), node) /\ "object" \in Node
      BY <2>1 DEF jwObj_node, Node
    <2>3. Ready(_jwObj(k, "plain"), "object")
      BY <1>1, <2>2, ReadyObj
    <2>4. QED
      BY <1>1, <2>2, <2>3, PutNodeOK
  <1>7. CASE \E node \in Node : jwArr_node(node)
    <2>1. PICK node \in Node : jwArr_node(node)
      BY <1>7
    <2>2. OK /\ PutNode("array", _jwArr, node) /\ "array" \in Node
      BY <2>1 DEF jwArr_node, Node
    <2>3. Ready(_jwArr, "array")
      BY <1>1, <2>2, ReadyArr
    <2>4. QED
      BY <1>1, <2>2, <2>3, PutNodeOK
  <1>8. QED
    BY <1>2, <1>3, <1>4, <1>5, <1>6, <1>7

LEMMA InitOK == Init => IInv
  <1>1. <<>> \in Seq(Node) /\ <<>> \in Seq(Entry)
    OBVIOUS
  <1> SUFFICES ASSUME Init PROVE IInv
    OBVIOUS
  <1>2. out \in Out
    <2>1. out = [used |-> 0, error |-> "JWRITE_OK",
                 reader |-> [open |-> <<>>, wants |-> "document"]]
      BY DEF Init
    <2>2. [open |-> <<>>, wants |-> "document"] \in Reader
      BY <1>1 DEF Reader, Wants
    <2>3. QED
      BY <2>1, <2>2 DEF Out, Errors
  <1>3. TypeOK
    BY <1>1, <1>2 DEF Init, TypeOK
  <1>4. QED
    BY <1>3 DEF Init, IInv, Phase

LEMMA NextOK == (Careful \/ client = "stats") /\ IInv /\ [Next]_vars => IInv'
  <1> SUFFICES ASSUME Careful \/ client = "stats", IInv, [Next]_vars PROVE IInv'
    OBVIOUS
  <1>0. 1 \in Nat
    OBVIOUS
  <1>9. client = "any" => Careful /\ (Writing <=> result = "none")
    BY DEF Careful, Writing
  <1>1. CASE AnyOpen
    <2>1. PICK len \in BufLens, root \in Node, pretty \in BOOLEAN : jwOpen(len, root, pretty)
      BY <1>1 DEF AnyOpen
    <2>2. len \in Nat
      BY WriterAssumption
    <2>3. UNCHANGED <<client, pc, width>>
      BY <1>1 DEF AnyOpen
    <2>4. QED
      BY <2>1, <2>2, <2>3, OpenOK DEF IInv, TypeOK, Phase
  <1>2. CASE AnyInsert
    <2>1. /\ result = "none" /\ result' = "none"
          /\ UNCHANGED <<client, pc, width, buflen, isPretty>>
      BY <1>2, <1>9 DEF AnyInsert
    <2>2. out' \in Out /\ nodeStack' \in Seq(Entry) /\ Match(out', nodeStack')
      BY <1>0, <1>2, <1>9, <2>1, InsertOK DEF AnyInsert, Careful
    <2>3. QED
      BY <2>1, <2>2 DEF IInv, TypeOK, Phase
  <1>3. CASE AnyClose
    <2>1. result = "none" /\ jwClose /\ UNCHANGED <<client, pc, width, buflen, isPretty>>
          /\ client = "any"
      BY <1>3, <1>9 DEF AnyClose
    <2>2. /\ out' \in Out /\ UNCHANGED nodeStack /\ result' # "none"
          /\ result' = "JWRITE_OK" => out'.reader.wants = "end"
      BY <2>1, CloseOK DEF IInv
    <2>3. QED
      BY <2>1, <2>2 DEF IInv, TypeOK, Phase
  <1>4. CASE BeginDump
    <2>1. jwOpen(StatsBufLen, "object", TRUE) /\ pc' = 1 /\ width' \in Nat /\ UNCHANGED client
      BY <1>4, WriterAssumption DEF BeginDump
    <2>2. StatsBufLen \in Nat /\ "object" \in Node
      BY WriterAssumption DEF Node
    <2>3. client = "stats"
      BY <1>4 DEF BeginDump
    <2>4. QED
      BY <2>1, <2>2, <2>3, OpenOK DEF IInv, TypeOK, Phase
  <1>5. CASE Dump
    <2>1. /\ client = "stats" /\ pc \in 1..(2 + NStats * PerStat) /\ pc' = pc + 1
          /\ UNCHANGED <<client, width, buflen, isPretty, result>>
      BY <1>5 DEF Dump
    <2>2. pc \in Nat /\ pc # 0 /\ result = "none"
      BY <2>1, WriterAssumption DEF IInv, Phase, PerStat, Fields, KeyLens
    <2>3. ASSUME StatsCall
          PROVE  \/ jwEnd \/ \E k, n \in Nat : jwObj_value(k, n, "plain")
                 \/ \E k \in Nat, node \in Node : jwObj_node(k, node, "plain")
                 \/ \E node \in Node : jwArr_node(node)
      <3> DEFINE field == (pc - 2) % PerStat
      <3>1. CASE pc = 1
        <4>1. jwObj_node(6, "array", "plain") /\ 6 \in Nat /\ "array" \in Node
          BY <2>3, <3>1 DEF StatsCall, Node
        <4>2. QED
          BY <4>1
      <3>2. CASE pc # 1 /\ (pc - 2 = NStats * PerStat \/ field = PerStat - 1)
        BY <2>3, <3>2 DEF StatsCall
      <3>3. CASE pc # 1 /\ pc - 2 # NStats * PerStat /\ field # PerStat - 1 /\ field = 0
        <4>1. jwArr_node("object") /\ "object" \in Node
          BY <2>3, <3>3 DEF StatsCall, Node
        <4>2. QED
          BY <4>1
      <3>4. CASE pc # 1 /\ pc - 2 # NStats * PerStat /\ field # PerStat - 1 /\ field # 0
        <4>1. jwObj_value(KeyLens[field], IF field = 1 THEN Quoted(NameLen) ELSE width, "plain")
          BY <2>3, <3>4 DEF StatsCall
        <4>2. PerStat = 9
          BY DEF PerStat, Fields, KeyLens
        <4>3. field \in 1..7
          BY <2>2, <3>4, <4>2
        <4>4. KeyLens[field] \in Nat
          BY <4>3 DEF KeyLens
        <4>5. (IF field = 1 THEN Quoted(NameLen) ELSE width) \in Nat
          BY WriterAssumption DEF IInv, TypeOK, Quoted
        <4>6. QED
          BY <4>1, <4>4, <4>5
      <3>5. QED
        BY <3>1, <3>2, <3>3, <3>4
    <2>4. out' \in Out /\ nodeStack' \in Seq(Entry) /\ Match(out', nodeStack')
      BY <1>5, <2>2, <2>3, InsertOK DEF Dump
    <2>5. QED
      BY <2>1, <2>2, <2>4 DEF IInv, TypeOK, Phase
  <1>6. CASE EndDump
    <2>1. /\ client = "stats" /\ jwClose /\ pc' = 0 /\ pc = 3 + NStats * PerStat
          /\ UNCHANGED <<client, width, buflen, isPretty>>
      BY <1>6 DEF EndDump
    <2>2. result = "none"
      BY <2>1, WriterAssumption DEF IInv, Phase, PerStat, Fields, KeyLens
    <2>3. /\ out' \in Out /\ UNCHANGED nodeStack /\ result' # "none"
          /\ result' = "JWRITE_OK" => out'.reader.wants = "end"
      BY <2>1, <2>2, CloseOK DEF IInv
    <2>4. QED
      BY <2>1, <2>3 DEF IInv, TypeOK, Phase
  <1>7. CASE UNCHANGED vars
    BY <1>7 DEF vars, IInv, TypeOK, Phase
  <1>8. QED
    BY <1>1, <1>2, <1>3, <1>4, <1>5, <1>6, <1>7 DEF Next

\* The invariant: while there is no error, the reader's nodes are those on the
\* stack and every node below the last has an element, of a Careful client.
THEOREM WriterInvariant == ASSUME Careful PROVE Spec => []IInv
  BY InitOK, NextOK, PTL DEF Spec

\* StackIsText, for every Careful client, stack depth and buffer.
THEOREM TextOpenInStack == ASSUME Careful PROVE Spec => []StackIsText
  <1>1. IInv => StackIsText
    BY DEF IInv, Match, StackIsText, OK, Types, Stands, Top
  <1>2. QED
    BY <1>1, WriterInvariant, PTL

\* ClosedIsJson: of a Careful client, jwClose returns JWRITE_OK only over text
\* that nests, separates and ends as JSON does, whatever the client has called.
THEOREM ClosedWellFormed == ASSUME Careful PROVE Spec => []ClosedIsJson
  <1>1. IInv => ClosedIsJson
    BY DEF IInv, ClosedIsJson
  <1>2. QED
    BY <1>1, WriterInvariant, PTL

-------------------------------------------------------------------------------
(* The statistics fit.                                                        *)

\* Characters of a statistic before its field f: what a call writes is the
\* comma, the new line with its spaces, key, colon and space, and the value.
Spent(f, w) ==
    IF f = 0 THEN 0
    ELSE <<11, 34 + NameLen, 55 + NameLen + w, 78 + NameLen + 2 * w, 100 + NameLen + 3 * w,
           121 + NameLen + 4 * w, 142 + NameLen + 5 * w, 166 + NameLen + 6 * w>>[f]

Nest1 == <<"object">>
Nest2 == <<"object", "array">>
Nest3 == <<"object", "array", "object">>

\* How deep the writer is, and how full its buffer, before field f of the
\* statistic after k others.
Stage(k, f) ==
    /\ Types(nodeStack) = IF f = 0 THEN Nest2 ELSE Nest3
    /\ f = 1 => Stands(nodeStack) = "first"
    /\ out.used <= 17 + k * PerStatLen(width) + Spent(f, width)

\* The same before every call of the statistics; 9 calls are one statistic.
Dumping ==
    client = "stats" =>
        /\ out.error = "JWRITE_OK"
        /\ pc \in 0..(3 + 9 * NStats)
        /\ pc # 0 => width \in NumberLens /\ buflen = StatsBufLen
        /\ pc = 1 => out.used = 1 /\ Types(nodeStack) = Nest1 /\ Stands(nodeStack) = "first"
        /\ \A k \in 0..NStats, f \in 0..8 :
              pc = 2 + 9 * k + f /\ pc <= 2 + 9 * NStats => Stage(k, f)
        /\ pc = 3 + 9 * NStats =>
              Types(nodeStack) = Nest1 /\ out.used <= 23 + NStats * PerStatLen(width)

\* A token that fits sets no error.
LEMMA PutFits ==
  ASSUME buflen \in Nat, NEW o \in Out, NEW n \in Nat, NEW r \in Reader,
         o.error = "JWRITE_OK", o.used + n <= buflen
  PROVE  /\ Put(o, n, r) \in Out /\ Put(o, n, r).error = "JWRITE_OK"
         /\ Put(o, n, r).used = o.used + n
  <1>1. Put(o, n, r) = [used |-> o.used + n, error |-> o.error, reader |-> r]
    BY DEF Put, Out
  <1>2. Put(o, n, r) \in Out
    BY PutPuts
  <1>3. QED
    BY <1>1, <1>2

\* Nor does a new line that fits.
LEMMA PrettyFits ==
  ASSUME buflen \in Nat, isPretty \in BOOLEAN, NEW o \in Out, NEW n \in Nat,
         o.error = "JWRITE_OK", o.used + 1 + 4 * n <= buflen
  PROVE  /\ jwPretty(o, n) \in Out /\ jwPretty(o, n).error = "JWRITE_OK"
         /\ jwPretty(o, n).used <= o.used + 1 + 4 * n
  <1>1. o.reader \in Reader /\ 1 + 4 * n \in Nat /\ o.used \in Nat
    BY DEF Out
  <1>2. CASE isPretty
    <2>1. o.used + (1 + 4 * n) <= buflen
      BY <1>1
    <2>2. /\ Put(o, 1 + 4 * n, o.reader) \in Out
          /\ Put(o, 1 + 4 * n, o.reader).error = "JWRITE_OK"
          /\ Put(o, 1 + 4 * n, o.reader).used = o.used + (1 + 4 * n)
      BY <1>1, <2>1, PutFits
    <2>3. jwPretty(o, n) = Put(o, 1 + 4 * n, o.reader)
      BY <1>2 DEF jwPretty, Space
    <2>4. QED
      BY <1>1, <2>2, <2>3
  <1>3. CASE ~isPretty
    BY <1>1, <1>3 DEF jwPretty
  <1>4. QED
    BY <1>2, <1>3

\* The comma before an element that is not the first.
CommaLen == IF Stands(nodeStack) = "first" THEN 0 ELSE 1

\* It is all that is written before the new line.
LEMMA SeparatedFits ==
  ASSUME TypeOK, OK, Len(nodeStack) >= 1, NEW node, Top.nodeType = node, NEW wrong,
         out.used + CommaLen <= buflen
  PROVE  LET o == Separated(node, wrong)
         IN  o \in Out /\ o.error = "JWRITE_OK" /\ o.used = out.used + CommaLen
  <1>1. /\ Top.elementNo \in Nat /\ buflen \in Nat /\ out \in Out /\ out.used \in Nat
        /\ out.reader \in Reader /\ out.error = "JWRITE_OK" /\ 1 \in Nat
    BY TopOf DEF TypeOK, Top, Entry, Out, OK
  <1>2. ReadComma(out.reader) \in Reader
    BY <1>1, ReaderTypes DEF Node
  <1>3. CASE Top.elementNo = 0
    BY <1>1, <1>3 DEF Separated, CommaLen, Stands, Top
  <1>4. CASE Top.elementNo # 0
    <2>1. Separated(node, wrong) = Put(out, 1, ReadComma(out.reader)) /\ CommaLen = 1
      BY <1>1, <1>4 DEF Separated, Comma, CommaLen, Stands, Top
    <2>2. QED
      BY <1>1, <1>2, <2>1, PutFits
  <1>5. QED
    BY <1>3, <1>4

\* _jwObj, where there is room.
LEMMA ObjFits ==
  ASSUME TypeOK, OK, Len(nodeStack) >= 1, Top.nodeType = "object", NEW n \in Nat,
         out.used + CommaLen + 4 * Len(nodeStack) + n + 5 <= buflen
  PROVE  /\ _jwObj(n, "plain") \in Out /\ _jwObj(n, "plain").error = "JWRITE_OK"
         /\ _jwObj(n, "plain").used <= out.used + CommaLen + 4 * Len(nodeStack) + n + 5
  <1>1. PICK u \in Nat, c \in Nat, l \in Nat, b \in Nat :
           u = out.used /\ c = CommaLen /\ l = Len(nodeStack) /\ b = buflen
    <2>1. out.used \in Nat /\ CommaLen \in Nat /\ Len(nodeStack) \in Nat /\ buflen \in Nat
      BY DEF TypeOK, Out, CommaLen
    <2>2. QED
      BY <2>1
  <1>2. u + c + 4 * l + n + 5 <= b
    BY <1>1
  <1>3. /\ Len(nodeStack) \in Nat /\ Quoted(n) = n + 2 /\ n + 2 \in Nat /\ 1 \in Nat
        /\ buflen \in Nat /\ isPretty \in BOOLEAN /\ out.used \in Nat /\ CommaLen \in {0, 1}
    BY DEF TypeOK, Quoted, Out, CommaLen
  <1>4. PICK o0 : o0 = Separated("object", "JWRITE_NOT_OBJECT")
    OBVIOUS
  <1>5. PICK o1 : o1 = jwPretty(o0, Len(nodeStack))
    OBVIOUS
  <1>6. PICK o2 : o2 = Put(o1, n + 2, ReadKey(o1.reader, "plain"))
    OBVIOUS
  <1>7. PICK o3 : o3 = Put(o2, 1, ReadColon(o2.reader))
    OBVIOUS
  <1>8. PICK o4 : o4 = IF isPretty THEN Put(o3, 1, o3.reader) ELSE o3
    OBVIOUS
  <1>9. _jwObj(n, "plain") = o4
    BY <1>3, <1>4, <1>5, <1>6, <1>7, <1>8 DEF _jwObj, Space
  <1>10. o0 \in Out /\ o0.error = "JWRITE_OK" /\ o0.used = u + c
    <2>1. out.used + CommaLen <= buflen
      <3>1. u + c <= b
        BY <1>2
      <3>2. QED
        BY <1>1, <3>1
    <2>2. QED
      BY <1>1, <1>4, <2>1, SeparatedFits
  <1>11. /\ o1 \in Out /\ o1.error = "JWRITE_OK" /\ o1.used \in Nat
        /\ o1.used <= u + c + 1 + 4 * l
    <2>1. o0.used + 1 + 4 * l <= b /\ o0.used \in Nat
      BY <1>2, <1>10
    <2>2. /\ o1 \in Out /\ o1.error = "JWRITE_OK"
          /\ o1.used <= o0.used + 1 + 4 * l
      BY <1>1, <1>3, <1>5, <1>10, <2>1, PrettyFits
    <2>3. QED
      BY <1>1, <1>10, <2>2 DEF Out
  <1>12. /\ o2 \in Out /\ o2.error = "JWRITE_OK" /\ o2.used = o1.used + (n + 2) /\ o2.used \in Nat
    <2>1. o1.used + (n + 2) <= b
      BY <1>2, <1>11
    <2>2. ReadKey(o1.reader, "plain") \in Reader
      BY <1>11, ReaderTypes DEF Out, Node
    <2>3. o2 \in Out /\ o2.error = "JWRITE_OK" /\ o2.used = o1.used + (n + 2)
      BY <1>1, <1>3, <1>6, <1>11, <2>1, <2>2, PutFits
    <2>4. o2.used \in Nat
      BY <2>3 DEF Out
    <2>5. QED
      BY <2>3, <2>4
  <1>13. /\ o3 \in Out /\ o3.error = "JWRITE_OK" /\ o3.used = o2.used + 1 /\ o3.used \in Nat
    <2>1. o2.used + 1 <= b
      BY <1>2, <1>11, <1>12
    <2>2. ReadColon(o2.reader) \in Reader
      BY <1>12, ReaderTypes DEF Out, Node
    <2>3. o3 \in Out /\ o3.error = "JWRITE_OK" /\ o3.used = o2.used + 1
      BY <1>1, <1>3, <1>7, <1>12, <2>1, <2>2, PutFits
    <2>4. o3.used \in Nat
      BY <2>3 DEF Out
    <2>5. QED
      BY <2>3, <2>4
  <1>14. o4 \in Out /\ o4.error = "JWRITE_OK" /\ o4.used <= o3.used + 1
    <2>1. o3.used + 1 <= b
      BY <1>2, <1>11, <1>12, <1>13
    <2>2. o3.reader \in Reader
      BY <1>13 DEF Out
    <2>3. CASE isPretty
      BY <1>1, <1>3, <1>8, <1>13, <2>1, <2>2, <2>3, PutFits
    <2>4. CASE ~isPretty
      BY <1>8, <1>13, <2>4
    <2>5. QED
      BY <2>3, <2>4
  <1>15. o4.used <= u + c + 4 * l + n + 5
    <2>1. o4.used \in Nat
      BY <1>14 DEF Out
    <2>2. QED
      BY <1>2, <1>11, <1>12, <1>13, <1>14, <2>1
  <1>16. QED
    BY <1>1, <1>9, <1>14, <1>15

\* A value in an object, where there is room.
LEMMA ValueFits ==
  ASSUME TypeOK, OK, Len(nodeStack) >= 1, Top.nodeType = "object", NEW k \in Nat, NEW n \in Nat,
         out.used + CommaLen + 4 * Len(nodeStack) + k + 5 + n <= buflen, jwObj_value(k, n, "plain")
  PROVE  /\ out'.error = "JWRITE_OK"
         /\ out'.used <= out.used + CommaLen + 4 * Len(nodeStack) + k + 5 + n
         /\ nodeStack' = Counted("object")
  <1>1. PICK u \in Nat, c \in Nat, l \in Nat, b \in Nat :
           u = out.used /\ c = CommaLen /\ l = Len(nodeStack) /\ b = buflen
    <2>1. out.used \in Nat /\ CommaLen \in Nat /\ Len(nodeStack) \in Nat /\ buflen \in Nat
      BY DEF TypeOK, Out, CommaLen
    <2>2. QED
      BY <2>1
  <1>2. u + c + 4 * l + k + 5 + n <= b
    BY <1>1
  <1>3. /\ Len(nodeStack) \in Nat /\ buflen \in Nat /\ out.used \in Nat /\ CommaLen \in {0, 1}
    BY DEF TypeOK, Out, CommaLen
  <1>4. PICK o : o = _jwObj(k, "plain")
    OBVIOUS
  <1>5. /\ o \in Out /\ o.error = "JWRITE_OK" /\ o.used \in Nat
        /\ o.used <= u + c + 4 * l + k + 5
    <2>1. u + c + 4 * l + k + 5 <= b
      BY <1>2
    <2>2. QED
      BY <1>1, <1>4, <2>1, ObjFits DEF Out
  <1>6. out' = Put(o, n, ReadValue(o.reader, "plain")) /\ nodeStack' = Counted("object")
    BY <1>4, <1>5 DEF jwObj_value, PutValue
  <1>7. ReadValue(o.reader, "plain") \in Reader
    BY <1>5, ReaderTypes DEF Out, Node
  <1>8. o.used + n <= b
    BY <1>2, <1>5
  <1>9. out'.error = "JWRITE_OK" /\ out'.used = o.used + n
    BY <1>1, <1>3, <1>5, <1>6, <1>7, <1>8, PutFits
  <1>10. out'.used <= u + c + 4 * l + k + 5 + n
    BY <1>2, <1>5, <1>9
  <1>11. QED
    BY <1>1, <1>6, <1>9, <1>10

\* An object or array, where there is room for its opener and on the stack.
LEMMA NodeFits ==
  ASSUME buflen \in Nat, NEW node, NEW new \in Node, NEW o \in Out, o.error = "JWRITE_OK",
         o.used + 1 <= buflen, Len(nodeStack) < JWRITE_STACK_DEPTH, Len(nodeStack) \in Nat,
         PutNode(node, o, new)
  PROVE  /\ out'.error = "JWRITE_OK" /\ out'.used = o.used + 1
         /\ nodeStack' = Pushed(Counted(node), new)
  <1>1. o.reader \in Reader /\ ReadOpener(o.reader, new) \in Reader /\ 1 \in Nat
    BY ReaderTypes DEF Out
  <1>2. ~ (Len(nodeStack) >= JWRITE_STACK_DEPTH)
    BY WriterAssumption
  <1>3. out' = Put(o, 1, ReadOpener(o.reader, new)) /\ nodeStack' = Pushed(Counted(node), new)
    BY <1>2 DEF PutNode
  <1>4. QED
    BY <1>1, <1>3, PutFits

\* jwObj_object and jwObj_array, where there is room.
LEMMA ObjNodeFits ==
  ASSUME TypeOK, OK, Len(nodeStack) >= 1, Len(nodeStack) < JWRITE_STACK_DEPTH,
         Top.nodeType = "object", NEW k \in Nat, NEW new \in Node,
         out.used + CommaLen + 4 * Len(nodeStack) + k + 6 <= buflen, jwObj_node(k, new, "plain")
  PROVE  /\ out'.error = "JWRITE_OK"
         /\ out'.used <= out.used + CommaLen + 4 * Len(nodeStack) + k + 6
         /\ nodeStack' = Pushed(Counted("object"), new)
  <1>1. PICK u \in Nat, c \in Nat, l \in Nat, b \in Nat :
           u = out.used /\ c = CommaLen /\ l = Len(nodeStack) /\ b = buflen
    <2>1. out.used \in Nat /\ CommaLen \in Nat /\ Len(nodeStack) \in Nat /\ buflen \in Nat
      BY DEF TypeOK, Out, CommaLen
    <2>2. QED
      BY <2>1
  <1>2. u + c + 4 * l + k + 6 <= b
    BY <1>1
  <1>3. /\ Len(nodeStack) \in Nat /\ buflen \in Nat /\ out.used \in Nat /\ CommaLen \in {0, 1}
    BY DEF TypeOK, Out, CommaLen
  <1>4. PICK o : o = _jwObj(k, "plain")
    OBVIOUS
  <1>5. /\ o \in Out /\ o.error = "JWRITE_OK" /\ o.used \in Nat
        /\ o.used <= u + c + 4 * l + k + 5
    <2>1. u + c + 4 * l + k + 5 <= b
      BY <1>2
    <2>2. QED
      BY <1>1, <1>4, <2>1, ObjFits DEF Out
  <1>6. PutNode("object", o, new)
    BY <1>4 DEF jwObj_node
  <1>7. o.used + 1 <= b
    BY <1>2, <1>5
  <1>8. /\ out'.error = "JWRITE_OK" /\ out'.used = o.used + 1
        /\ nodeStack' = Pushed(Counted("object"), new)
    BY <1>1, <1>3, <1>5, <1>6, <1>7, NodeFits
  <1>9. out'.used <= u + c + 4 * l + k + 6
    BY <1>2, <1>5, <1>8
  <1>10. QED
    BY <1>1, <1>8, <1>9

\* jwArr_object and jwArr_array, where there is room.
LEMMA ArrNodeFits ==
  ASSUME TypeOK, OK, Len(nodeStack) >= 1, Len(nodeStack) < JWRITE_STACK_DEPTH,
         Top.nodeType = "array", NEW new \in Node,
         out.used + CommaLen + 4 * Len(nodeStack) + 2 <= buflen, jwArr_node(new)
  PROVE  /\ out'.error = "JWRITE_OK"
         /\ out'.used <= out.used + CommaLen + 4 * Len(nodeStack) + 2
         /\ nodeStack' = Pushed(Counted("array"), new)
  <1>1. PICK u \in Nat, c \in Nat, l \in Nat, b \in Nat :
           u = out.used /\ c = CommaLen /\ l = Len(nodeStack) /\ b = buflen
    <2>1. out.used \in Nat /\ CommaLen \in Nat /\ Len(nodeStack) \in Nat /\ buflen \in Nat
      BY DEF TypeOK, Out, CommaLen
    <2>2. QED
      BY <2>1
  <1>2. u + c + 4 * l + 2 <= b
    BY <1>1
  <1>3. /\ Len(nodeStack) \in Nat /\ buflen \in Nat /\ out.used \in Nat /\ CommaLen \in {0, 1}
        /\ isPretty \in BOOLEAN
    BY DEF TypeOK, Out, CommaLen
  <1>4. PICK o0 : o0 = Separated("array", "JWRITE_NOT_ARRAY")
    OBVIOUS
  <1>5. o0 \in Out /\ o0.error = "JWRITE_OK" /\ o0.used = u + c
    <2>1. u + c <= b
      BY <1>2
    <2>2. QED
      BY <1>1, <1>4, <2>1, SeparatedFits
  <1>6. PICK o : o = jwPretty(o0, Len(nodeStack))
    OBVIOUS
  <1>7. /\ o \in Out /\ o.error = "JWRITE_OK" /\ o.used \in Nat
        /\ o.used <= o0.used + 1 + 4 * l /\ o0.used \in Nat
    <2>1. o0.used + 1 + 4 * l <= b /\ o0.used \in Nat
      BY <1>2, <1>5
    <2>2. QED
      BY <1>1, <1>3, <1>5, <1>6, <2>1, PrettyFits DEF Out
  <1>8. PutNode("array", o, new)
    BY <1>4, <1>6 DEF jwArr_node, _jwArr
  <1>9. o.used + 1 <= b
    BY <1>2, <1>5, <1>7
  <1>10. /\ out'.error = "JWRITE_OK" /\ out'.used = o.used + 1
        /\ nodeStack' = Pushed(Counted("array"), new)
    BY <1>1, <1>3, <1>7, <1>8, <1>9, NodeFits
  <1>11. out'.used <= u + c + 4 * l + 2
    BY <1>2, <1>5, <1>7, <1>10
  <1>12. QED
    BY <1>1, <1>10, <1>11

\* The end of a node that is not the root, where there is room.
LEMMA EndFits ==
  ASSUME TypeOK, OK, Len(nodeStack) >= 2, Below(nodeStack),
         out.used + 4 * Len(nodeStack) - 2 <= buflen, jwEnd
  PROVE  /\ out'.error = "JWRITE_OK" /\ out'.used <= out.used + 4 * Len(nodeStack) - 2
         /\ nodeStack' = Popped(nodeStack)
  <1>1. PICK u \in Nat, c \in Nat, l \in Nat, b \in Nat :
           u = out.used /\ c = CommaLen /\ l = Len(nodeStack) /\ b = buflen
    <2>1. out.used \in Nat /\ CommaLen \in Nat /\ Len(nodeStack) \in Nat /\ buflen \in Nat
      BY DEF TypeOK, Out, CommaLen
    <2>2. QED
      BY <2>1
  <1>2. l >= 2 /\ u + 4 * l - 2 <= b
    BY <1>1
  <1>3. /\ nodeStack \in Seq(Entry) /\ Len(nodeStack) \in Nat /\ buflen \in Nat
        /\ out \in Out /\ out.used \in Nat /\ isPretty \in BOOLEAN /\ out.error = "JWRITE_OK"
    BY DEF TypeOK, Out, OK
  <1>4. l # 1 /\ l >= 1
    BY <1>2
  <1>5. Len(Popped(nodeStack)) = l - 1 /\ l - 1 \in Nat
    BY <1>1, <1>3, PoppedOK
  <1>6. PICK o : o = IF Top.elementNo > 0 THEN jwPretty(out, l - 1) ELSE out
    OBVIOUS
  <1>7. out' = Put(o, 1, ReadCloser(o.reader, Top.nodeType)) /\ nodeStack' = Popped(nodeStack)
    BY <1>1, <1>4, <1>5, <1>6 DEF jwEnd
  <1>8. /\ o \in Out /\ o.error = "JWRITE_OK" /\ o.used \in Nat
        /\ o.used <= u + 4 * l - 3
    <2>1. u + 1 + 4 * (l - 1) <= b
      BY <1>2
    <2>2. CASE Top.elementNo > 0
      <3>1. /\ o \in Out /\ o.error = "JWRITE_OK"
            /\ o.used <= u + 1 + 4 * (l - 1)
        BY <1>1, <1>3, <1>5, <1>6, <2>1, <2>2, PrettyFits
      <3>2. QED
        BY <1>1, <3>1 DEF Out
    <2>3. CASE ~ (Top.elementNo > 0)
      BY <1>1, <1>3, <1>6, <2>3
    <2>4. QED
      BY <2>2, <2>3
  <1>9. Top.nodeType \in Node
    BY <1>1, <1>3, <1>4, TopOf DEF Top, Entry
  <1>10. ReadCloser(o.reader, Top.nodeType) \in Reader
    BY <1>8, <1>9, ReaderTypes DEF Out
  <1>11. o.used + 1 <= b
    BY <1>2, <1>8
  <1>12. out'.error = "JWRITE_OK" /\ out'.used = o.used + 1
    BY <1>1, <1>3, <1>7, <1>8, <1>10, <1>11, PutFits
  <1>13. out'.used <= u + 4 * l - 2
    BY <1>2, <1>8, <1>12
  <1>14. QED
    BY <1>1, <1>7, <1>13, <1>12

\* jwClose, where there is room.
LEMMA CloseFits ==
  ASSUME TypeOK, OK, Len(nodeStack) = 1, out.used + 2 <= buflen, jwClose
  PROVE  out'.error = "JWRITE_OK"
  <1>1. PICK u \in Nat, c \in Nat, l \in Nat, b \in Nat :
           u = out.used /\ c = CommaLen /\ l = Len(nodeStack) /\ b = buflen
    <2>1. out.used \in Nat /\ CommaLen \in Nat /\ Len(nodeStack) \in Nat /\ buflen \in Nat
      BY DEF TypeOK, Out, CommaLen
    <2>2. QED
      BY <2>1
  <1>2. l = 1 /\ u + 2 <= b
    BY <1>1
  <1>3. /\ nodeStack \in Seq(Entry) /\ buflen \in Nat /\ out \in Out /\ out.used \in Nat
        /\ isPretty \in BOOLEAN /\ out.error = "JWRITE_OK" /\ out.reader \in Reader /\ 1 \in Nat
    BY DEF TypeOK, Out, OK
  <1>4. PICK o : o = IF isPretty THEN Put(out, 1, out.reader) ELSE out
    OBVIOUS
  <1>5. out' = Put(o, 1, ReadCloser(o.reader, Top.nodeType))
    BY <1>4 DEF jwClose, Space
  <1>6. o \in Out /\ o.error = "JWRITE_OK" /\ o.used <= u + 1 /\ o.used \in Nat
    <2>1. u + 1 <= b
      BY <1>2
    <2>2. CASE isPretty
      BY <1>1, <1>3, <1>4, <2>1, <2>2, PutFits DEF Out
    <2>3. CASE ~isPretty
      BY <1>1, <1>3, <1>4, <2>3
    <2>4. QED
      BY <2>2, <2>3
  <1>7. Top.nodeType \in Node
    <2>1. Len(nodeStack) >= 1
      BY <1>1
    <2>2. QED
      BY <1>3, <2>1, TopOf DEF Top, Entry
  <1>8. ReadCloser(o.reader, Top.nodeType) \in Reader
    BY <1>6, <1>7, ReaderTypes DEF Out
  <1>9. o.used + 1 <= b
    BY <1>2, <1>6
  <1>10. QED
    BY <1>1, <1>3, <1>5, <1>6, <1>8, <1>9, PutFits

-------------------------------------------------------------------------------
(* The calls of the statistics, one after the other. *)

\* The stacks that the statistics go through.
LEMMA Nests ==
  /\ Len(Nest1) = 1 /\ Len(Nest2) = 2 /\ Len(Nest3) = 3
  /\ Last(Nest1) = "object" /\ Last(Nest2) = "array" /\ Last(Nest3) = "object"
  /\ Append(Nest1, "array") = Nest2 /\ Append(Nest2, "object") = Nest3
  /\ Front(Nest2) = Nest1 /\ Front(Nest3) = Nest2
  <1>1. Len(Nest1) = 1 /\ Len(Nest2) = 2 /\ Len(Nest3) = 3
    BY DEF Nest1, Nest2, Nest3
  <1>2. Last(Nest1) = "object" /\ Last(Nest2) = "array" /\ Last(Nest3) = "object"
    BY DEF Nest1, Nest2, Nest3, Last
  <1>3. Append(Nest1, "array") = Nest2 /\ Append(Nest2, "object") = Nest3
    <2>1. Append(Nest1, "array") = [k \in 1..2 |-> IF k = 2 THEN "array" ELSE Nest1[k]]
      BY DEF Nest1
    <2>2. Append(Nest2, "object") = [k \in 1..3 |-> IF k = 3 THEN "object" ELSE Nest2[k]]
      BY DEF Nest2
    <2>3. Nest2 = [k \in 1..2 |-> IF k = 2 THEN "array" ELSE Nest1[k]]
      BY DEF Nest1, Nest2
    <2>4. Nest3 = [k \in 1..3 |-> IF k = 3 THEN "object" ELSE Nest2[k]]
      BY DEF Nest2, Nest3
    <2>5. QED
      BY <2>1, <2>2, <2>3, <2>4
  <1>4. Front(Nest2) = Nest1 /\ Front(Nest3) = Nest2
    <2>1. Front(Nest2) = [k \in 1..1 |-> Nest2[k]] /\ Front(Nest3) = [k \in 1..2 |-> Nest3[k]]
      BY DEF Nest2, Nest3, Front
    <2>2. Nest1 = [k \in 1..1 |-> Nest2[k]] /\ Nest2 = [k \in 1..2 |-> Nest3[k]]
      BY DEF Nest1, Nest2, Nest3
    <2>3. QED
      BY <2>1, <2>2
  <1>5. QED
    BY <1>1, <1>2, <1>3, <1>4

\* How deep the stack is and what is on its top.
LEMMA Depth ==
  ASSUME TypeOK
  PROVE  /\ Types(nodeStack) = Nest1 => Len(nodeStack) = 1 /\ Top.nodeType = "object"
         /\ Types(nodeStack) = Nest2 => Len(nodeStack) = 2 /\ Top.nodeType = "array"
         /\ Types(nodeStack) = Nest3 => Len(nodeStack) = 3 /\ Top.nodeType = "object"
  <1>1. nodeStack \in Seq(Entry) /\ Len(nodeStack) \in Nat /\ DOMAIN nodeStack = 1..Len(nodeStack)
    BY DEF TypeOK
  <1>2. \A k \in 1..Len(nodeStack) : nodeStack[k].nodeType \in Node
    <2>1. \A k \in 1..Len(nodeStack) : nodeStack[k] \in Entry
      BY <1>1
    <2>2. QED
      BY <2>1 DEF Entry
  <1>3. Len(Types(nodeStack)) = Len(nodeStack)
    BY <1>1, <1>2 DEF Types
  <1>4. Len(nodeStack) >= 1 => Last(Types(nodeStack)) = Top.nodeType
    BY <1>1, TopOf DEF Top
  <1>5. QED
    BY <1>3, <1>4, Nests

\* What the calls write stays below what the statistics take in all.
LEMMA Bounds ==
  ASSUME Fits, NEW w \in NumberLens
  PROVE  /\ w \in Nat /\ NameLen \in Nat /\ NStats \in Nat /\ StatsBufLen \in Nat
         /\ StatsBufLen >= 25
         /\ \A k \in 0..NStats : k * PerStatLen(w) \in Nat /\
               25 + k * PerStatLen(w) <= StatsBufLen
         /\ \A k \in 0..(NStats - 1) :
               /\ k * PerStatLen(w) + PerStatLen(w) = (k + 1) * PerStatLen(w)
               /\ 25 + k * PerStatLen(w) + PerStatLen(w) <= StatsBufLen
  <1>1. w \in Nat /\ NameLen \in Nat /\ NStats \in Nat /\ StatsBufLen \in Nat
    BY WriterAssumption
  <1>2. PerStatLen(w) \in Nat
    BY <1>1 DEF PerStatLen
  <1>3. \A n, c \in Nat : \A k \in 0..n : k * c \in Nat /\ k * c <= n * c /\ n * c \in Nat
    OBVIOUS
  <1>4. \A k, c \in Nat : (k + 1) * c = k * c + c
    OBVIOUS
  <1>5. 25 + NStats * PerStatLen(w) <= StatsBufLen
    BY DEF Fits
  <1>6. ASSUME NEW k \in 0..NStats
        PROVE  k * PerStatLen(w) \in Nat /\ 25 + k * PerStatLen(w) <= StatsBufLen
    <2>1. /\ k * PerStatLen(w) \in Nat /\ NStats * PerStatLen(w) \in Nat
          /\ k * PerStatLen(w) <= NStats * PerStatLen(w)
      BY <1>1, <1>2, <1>3
    <2>2. \A x, y, z \in Nat : x <= y /\ 25 + y <= z => 25 + x <= z
      OBVIOUS
    <2>3. QED
      BY <1>1, <1>5, <2>1, <2>2
  <1>7. ASSUME NEW k \in 0..(NStats - 1)
        PROVE  /\ k * PerStatLen(w) + PerStatLen(w) = (k + 1) * PerStatLen(w)
               /\ 25 + k * PerStatLen(w) + PerStatLen(w) <= StatsBufLen
    <2>1. k \in Nat /\ k + 1 \in 0..NStats /\ k \in 0..NStats
      BY <1>1
    <2>2. k * PerStatLen(w) + PerStatLen(w) = (k + 1) * PerStatLen(w)
      BY <1>2, <1>4, <2>1
    <2>3. 25 + (k + 1) * PerStatLen(w) <= StatsBufLen /\ k * PerStatLen(w) \in Nat
      BY <1>6, <2>1
    <2>4. 25 + (k * PerStatLen(w) + PerStatLen(w)) <= StatsBufLen
      BY <2>2, <2>3
    <2>5. \A x, y, z \in Nat : 25 + (x + y) <= z => 25 + x + y <= z
      OBVIOUS
    <2>6. QED
      BY <1>1, <1>2, <2>2, <2>3, <2>4, <2>5
  <1>8. StatsBufLen >= 25
    <2>1. \A y, z \in Nat : 25 + y <= z => z >= 25
      OBVIOUS
    <2>2. NStats * PerStatLen(w) \in Nat
      BY <1>1, <1>2
    <2>3. QED
      BY <1>1, <1>5, <2>1, <2>2
  <1>9. QED
    BY <1>1, <1>6, <1>7, <1>8

\* Where the next call finds the writer.
LEMMA Arrive ==
  ASSUME NEW k \in 0..NStats, NEW f \in 0..8, pc' = 2 + 9 * k + f, pc' <= 2 + 9 * NStats,
         Stage(k, f)', out'.error = "JWRITE_OK", width' \in NumberLens, buflen' = StatsBufLen
  PROVE  Dumping'
  <1>1. NStats \in Nat /\ k \in Nat
    BY WriterAssumption
  <1>2. pc' \in 0..(3 + 9 * NStats) /\ pc' # 1 /\ pc' # 3 + 9 * NStats
    BY <1>1
  <1>3. \A j \in 0..NStats, g \in 0..8 : pc' = 2 + 9 * j + g => j = k /\ g = f
    BY <1>1
  <1>4. QED
    BY <1>2, <1>3 DEF Dumping

\* How the characters of a statistic add up, field by field.
LEMMA SpentSteps ==
  ASSUME NEW w \in Nat
  PROVE  /\ PerStatLen(w) \in Nat /\ PerStatLen(w) = 176 + NameLen + 6 * w
         /\ Spent(0, w) = 0 /\ Spent(1, w) = 11 /\ Spent(8, w) + 10 = PerStatLen(w)
         /\ \A f \in 0..8 : Spent(f, w) \in Nat /\ Spent(f, w) <= PerStatLen(w)
         /\ \A f \in 1..7 :
               LET comma == IF f = 1 THEN 0 ELSE 1
                   n == IF f = 1 THEN Quoted(NameLen) ELSE w
               IN  /\ KeyLens[f] \in Nat /\ n \in Nat
                   /\ Spent(f + 1, w) = Spent(f, w) + (comma + KeyLens[f] + 17 + n)
  <1>1. NameLen \in Nat
    BY WriterAssumption
  <1>2. PerStatLen(w) \in Nat /\ PerStatLen(w) = 176 + NameLen + 6 * w
    BY <1>1 DEF PerStatLen
  <1>3. /\ Spent(0, w) = 0 /\ Spent(1, w) = 11 /\ Spent(2, w) = 34 + NameLen
        /\ Spent(3, w) = 55 + NameLen + w /\ Spent(4, w) = 78 + NameLen + 2 * w
        /\ Spent(5, w) = 100 + NameLen + 3 * w /\ Spent(6, w) = 121 + NameLen + 4 * w
        /\ Spent(7, w) = 142 + NameLen + 5 * w /\ Spent(8, w) = 166 + NameLen + 6 * w
    BY DEF Spent
  <1>4. /\ KeyLens[1] = 4 /\ KeyLens[2] = 3 /\ KeyLens[3] = 5 /\ KeyLens[4] = 4
        /\ KeyLens[5] = 3 /\ KeyLens[6] = 3 /\ KeyLens[7] = 6
    BY DEF KeyLens
  <1>5. 0..8 = {0, 1, 2, 3, 4, 5, 6, 7, 8} /\ 1..7 = {1, 2, 3, 4, 5, 6, 7}
    OBVIOUS
  <1>6. \A f \in 0..8 : Spent(f, w) \in Nat /\ Spent(f, w) <= PerStatLen(w)
    BY <1>1, <1>2, <1>3, <1>5
  <1>7. \A f \in 1..7 :
           LET comma == IF f = 1 THEN 0 ELSE 1
               n == IF f = 1 THEN Quoted(NameLen) ELSE w
           IN  /\ KeyLens[f] \in Nat /\ n \in Nat
               /\ Spent(f + 1, w) = Spent(f, w) + (comma + KeyLens[f] + 17 + n)
    BY <1>1, <1>3, <1>4, <1>5 DEF Quoted
  <1>8. Spent(8, w) + 10 = PerStatLen(w)
    BY <1>1, <1>2, <1>3
  <1>9. QED
    BY <1>2, <1>3, <1>6, <1>7, <1>8

\* What every call finds, and what the calls leave alone.
LEMMA Found ==
  ASSUME IInv, Dumping, Fits, client = "stats", pc # 0
  PROVE  /\ TypeOK /\ OK /\ Match(out, nodeStack) /\ Below(nodeStack)
         /\ out.used \in Nat /\ buflen = StatsBufLen /\ width \in NumberLens /\ pc \in Nat
         /\ CommaLen \in {0, 1} /\ (Stands(nodeStack) = "first" => CommaLen = 0)
         /\ nodeStack \in Seq(Entry) /\ JWRITE_STACK_DEPTH >= 3 /\ JWRITE_STACK_DEPTH \in Nat
  <1>1. TypeOK /\ OK /\ result = "none" /\ Match(out, nodeStack)
    BY DEF IInv, Phase, Dumping, OK
  <1>2. pc \in Nat
    BY WriterAssumption DEF Dumping
  <1>3. QED
    BY <1>1, <1>2, WriterAssumption DEF Dumping, Fits, Match, OK, TypeOK, Out, CommaLen

\* jwObj_array("xstats").
LEMMA FirstCall ==
  ASSUME IInv, Dumping, Fits, client = "stats", pc = 1, jwObj_node(6, "array", "plain"), pc' = 2,
         TypeOK', UNCHANGED <<width, buflen>>
  PROVE  Dumping'
  <1>1. /\ TypeOK /\ OK /\ width \in NumberLens /\ buflen = StatsBufLen /\ CommaLen = 0
        /\ Types(nodeStack) = Nest1 /\ out.used = 1 /\ Len(nodeStack) = 1
        /\ Top.nodeType = "object" /\ nodeStack \in Seq(Entry)
        /\ JWRITE_STACK_DEPTH >= 3 /\ JWRITE_STACK_DEPTH \in Nat
    BY Found, Depth DEF Dumping
  <1>2. /\ NameLen \in Nat /\ NStats \in Nat /\ StatsBufLen \in Nat /\ StatsBufLen >= 25
        /\ 0 * PerStatLen(width) \in Nat
    BY <1>1, Bounds
  <1>3. out.used + CommaLen + 4 * Len(nodeStack) + 6 + 6 <= buflen
    BY <1>1, <1>2
  <1>4. Len(nodeStack) < JWRITE_STACK_DEPTH /\ Len(nodeStack) >= 1 /\ 6 \in Nat /\ "array" \in Node
    BY <1>1 DEF Node
  <1>5. /\ out'.error = "JWRITE_OK"
        /\ out'.used <= out.used + CommaLen + 4 * Len(nodeStack) + 6 + 6
        /\ nodeStack' = Pushed(Counted("object"), "array")
    BY <1>1, <1>3, <1>4, ObjNodeFits
  <1>6. out'.used <= 17
    BY <1>1, <1>5
  <1>7. Counted("object") \in Seq(Entry) /\ Types(Counted("object")) = Nest1 /\ "object" \in Node
    BY <1>1, <1>4, CountedOK DEF Node
  <1>8. Types(nodeStack') = Nest2
    BY <1>4, <1>5, <1>7, PushedOK, Nests
  <1>9. PerStatLen(width) \in Nat /\ 0 * PerStatLen(width) = 0
    <2>1. width \in Nat
      BY <1>1, WriterAssumption
    <2>2. PerStatLen(width) \in Nat
      BY <1>2, <2>1 DEF PerStatLen
    <2>3. QED
      BY <2>2
  <1>10. Stage(0, 0)'
    BY <1>1, <1>6, <1>8, <1>9 DEF Stage, Spent
  <1>11. pc' = 2 + 9 * 0 + 0 /\ pc' <= 2 + 9 * NStats /\ 0 \in 0..NStats /\ 0 \in 0..8
    BY <1>2
  <1>12. QED
    BY <1>1, <1>5, <1>10, <1>11, Arrive

\* jwArr_object, where a statistic begins.
LEMMA BeginCall ==
  ASSUME IInv, Dumping, Fits, client = "stats", NEW k \in 0..(NStats - 1), pc = 2 + 9 * k,
         jwArr_node("object"), pc' = pc + 1, TypeOK',
         UNCHANGED <<width, buflen>>
  PROVE  Dumping'
  <1>1. /\ NStats \in Nat /\ k \in Nat /\ k \in 0..NStats /\ 0 \in 0..8 /\ 1 \in 0..8
        /\ pc = 2 + 9 * k + 0 /\ pc <= 2 + 9 * NStats /\ pc # 0
        /\ pc' = 2 + 9 * k + 1 /\ pc' <= 2 + 9 * NStats
    BY WriterAssumption
  <1>2. Stage(k, 0) /\ width \in NumberLens /\ buflen = StatsBufLen
    BY <1>1 DEF Dumping
  <1>3. /\ TypeOK /\ OK /\ CommaLen \in {0, 1} /\ out.used \in Nat
        /\ Types(nodeStack) = Nest2 /\ Len(nodeStack) = 2 /\ Top.nodeType = "array"
        /\ nodeStack \in Seq(Entry) /\ JWRITE_STACK_DEPTH >= 3 /\ JWRITE_STACK_DEPTH \in Nat
    BY <1>1, <1>2, Found, Depth DEF Stage
  <1>4. PICK m \in Nat, w \in Nat, u \in Nat :
           m = k * PerStatLen(width) /\ w = width /\ u = out.used
    BY <1>1, <1>2, <1>3, Bounds
  <1>5. NameLen \in Nat /\ StatsBufLen \in Nat /\ 25 + m + PerStatLen(width) <= StatsBufLen
    BY <1>2, <1>4, Bounds
  <1>6. 25 + m + (176 + NameLen + 6 * w) <= StatsBufLen
    BY <1>4, <1>5 DEF PerStatLen
  <1>7. u <= 17 + m
    BY <1>2, <1>4 DEF Stage, Spent
  <1>8. u + 11 <= StatsBufLen
    BY <1>5, <1>6, <1>7
  <1>9. CommaLen \in Nat /\ CommaLen <= 1
    BY <1>3
  <1>10. u + CommaLen + 4 * 2 + 2 <= StatsBufLen
    BY <1>5, <1>8, <1>9
  <1>11. out.used + CommaLen + 4 * Len(nodeStack) + 2 <= buflen
    BY <1>2, <1>3, <1>4, <1>10
  <1>12. /\ Len(nodeStack) < JWRITE_STACK_DEPTH /\ Len(nodeStack) >= 1
         /\ "object" \in Node /\ "array" \in Node
    BY <1>3 DEF Node
  <1>13. /\ out'.error = "JWRITE_OK"
         /\ out'.used <= out.used + CommaLen + 4 * Len(nodeStack) + 2
         /\ nodeStack' = Pushed(Counted("array"), "object")
    BY <1>3, <1>11, <1>12, ArrNodeFits
  <1>14. out'.used <= 17 + m + 11
    <2>1. out'.used <= u + CommaLen + 4 * 2 + 2
      BY <1>3, <1>4, <1>13
    <2>2. out'.used \in Nat
      BY DEF TypeOK, Out
    <2>3. QED
      BY <1>7, <1>9, <2>1, <2>2
  <1>15. /\ Counted("array") \in Seq(Entry) /\ Types(Counted("array")) = Nest2
    BY <1>3, <1>12, CountedOK
  <1>16. Types(nodeStack') = Nest3 /\ Stands(nodeStack') = "first"
    BY <1>12, <1>13, <1>15, PushedOK, Nests
  <1>17. Stage(k, 1)'
    BY <1>1, <1>2, <1>4, <1>14, <1>16 DEF Stage, Spent
  <1>18. QED
    BY <1>1, <1>2, <1>13, <1>17, Arrive

\* A field of a statistic.
LEMMA FieldCall ==
  ASSUME IInv, Dumping, Fits, client = "stats", NEW k \in 0..(NStats - 1), NEW f \in 1..7,
         pc = 2 + 9 * k + f,
         jwObj_value(KeyLens[f], IF f = 1 THEN Quoted(NameLen) ELSE width, "plain"),
         pc' = pc + 1, TypeOK', UNCHANGED <<width, buflen>>
  PROVE  Dumping'
  <1>1. /\ NStats \in Nat /\ k \in Nat /\ k \in 0..NStats /\ f \in 0..8 /\ f + 1 \in 0..8
        /\ pc <= 2 + 9 * NStats /\ pc # 0 /\ f # 0 /\ f + 1 # 0 /\ f + 1 # 1
        /\ pc' = 2 + 9 * k + (f + 1) /\ pc' <= 2 + 9 * NStats
    BY WriterAssumption
  <1>2. Stage(k, f) /\ width \in NumberLens /\ buflen = StatsBufLen
    BY <1>1 DEF Dumping
  <1>3. /\ TypeOK /\ OK /\ CommaLen \in {0, 1} /\ (f = 1 => CommaLen = 0) /\ out.used \in Nat
        /\ Types(nodeStack) = Nest3 /\ Len(nodeStack) = 3 /\ Top.nodeType = "object"
        /\ nodeStack \in Seq(Entry)
    BY <1>1, <1>2, Found, Depth DEF Stage
  <1>4. PICK m \in Nat, u \in Nat, s \in Nat, p \in Nat, b \in Nat :
           /\ m = k * PerStatLen(width) /\ u = out.used /\ s = Spent(f, width)
           /\ p = PerStatLen(width) /\ b = StatsBufLen
    BY <1>1, <1>2, <1>3, Bounds, SpentSteps
  <1>5. PICK c \in Nat, key \in Nat, n \in Nat :
           /\ c = IF f = 1 THEN 0 ELSE 1
           /\ key = KeyLens[f] /\ n = IF f = 1 THEN Quoted(NameLen) ELSE width
    BY <1>2, Bounds, SpentSteps
  <1>6. Spent(f + 1, width) = s + (c + key + 17 + n) /\ Spent(f + 1, width) <= p
    <2>1. width \in Nat
      BY <1>2, WriterAssumption
    <2>2. Spent(f + 1, width) = s + (c + key + 17 + n)
      BY <1>4, <1>5, <2>1, SpentSteps
    <2>3. Spent(f + 1, width) <= p
      BY <1>1, <1>4, <2>1, SpentSteps
    <2>4. QED
      BY <2>2, <2>3
  <1>7. 25 + m + p <= b
    BY <1>2, <1>4, Bounds
  <1>8. u <= 17 + m + s
    BY <1>2, <1>4 DEF Stage
  <1>9. s + (c + key + 17 + n) <= p
    BY <1>6
  <1>10. u + (c + key + 17 + n) <= b
    BY <1>7, <1>8, <1>9
  <1>11. CommaLen <= c /\ CommaLen \in Nat
    BY <1>3, <1>5
  <1>12. u + CommaLen + 4 * 3 + key + 5 + n <= b
    BY <1>10, <1>11
  <1>13. out.used + CommaLen + 4 * Len(nodeStack) + key + 5 + n <= buflen
    BY <1>2, <1>3, <1>4, <1>12
  <1>14. jwObj_value(key, n, "plain")
    BY <1>5
  <1>15. Len(nodeStack) >= 1 /\ "object" \in Node
    BY <1>3 DEF Node
  <1>16. /\ out'.error = "JWRITE_OK"
         /\ out'.used <= out.used + CommaLen + 4 * Len(nodeStack) + key + 5 + n
         /\ nodeStack' = Counted("object")
    BY <1>3, <1>13, <1>14, <1>15, ValueFits
  <1>17. out'.used <= u + CommaLen + 4 * 3 + key + 5 + n
    BY <1>3, <1>4, <1>16
  <1>18. out'.used \in Nat
    BY DEF TypeOK, Out
  <1>19. out'.used <= 17 + m + (s + (c + key + 17 + n))
    BY <1>8, <1>11, <1>17, <1>18
  <1>20. Types(nodeStack') = Nest3
    BY <1>3, <1>15, <1>16, CountedOK
  <1>21. out'.used <= 17 + k * PerStatLen(width) + Spent(f + 1, width)
    BY <1>4, <1>6, <1>19
  <1>22. Stage(k, f + 1)'
    BY <1>1, <1>20, <1>21 DEF Stage
  <1>23. QED
    BY <1>1, <1>2, <1>16, <1>22, Arrive

\* jwEnd, where a statistic ends.
LEMMA EndCall ==
  ASSUME IInv, Dumping, Fits, client = "stats", NEW k \in 0..(NStats - 1), pc = 2 + 9 * k + 8,
         jwEnd, pc' = pc + 1, TypeOK', UNCHANGED <<width, buflen>>
  PROVE  Dumping'
  <1>1. /\ NStats \in Nat /\ k \in Nat /\ k \in 0..NStats /\ k + 1 \in 0..NStats /\ 8 \in 0..8
        /\ pc <= 2 + 9 * NStats /\ pc # 0 /\ 0 \in 0..8
        /\ pc' = 2 + 9 * (k + 1) + 0 /\ pc' <= 2 + 9 * NStats
    BY WriterAssumption
  <1>2. Stage(k, 8) /\ width \in NumberLens /\ buflen = StatsBufLen
    BY <1>1 DEF Dumping
  <1>3. /\ TypeOK /\ OK /\ out.used \in Nat /\ Below(nodeStack)
        /\ Types(nodeStack) = Nest3 /\ Len(nodeStack) = 3
        /\ nodeStack \in Seq(Entry)
    BY <1>1, <1>2, Found, Depth DEF Stage
  <1>4. PICK m \in Nat, u \in Nat, s \in Nat, p \in Nat, b \in Nat :
           /\ m = k * PerStatLen(width) /\ u = out.used /\ s = Spent(8, width)
           /\ p = PerStatLen(width) /\ b = StatsBufLen
    BY <1>1, <1>2, <1>3, Bounds, SpentSteps
  <1>5. s + 10 = p
    BY <1>2, <1>4, Bounds, SpentSteps
  <1>6. (k + 1) * PerStatLen(width) = m + p
    BY <1>2, <1>4, Bounds
  <1>7. 25 + m + p <= b
    BY <1>2, <1>4, Bounds
  <1>8. u <= 17 + m + s
    BY <1>2, <1>4 DEF Stage
  <1>9. u + 4 * 3 - 2 <= b
    BY <1>5, <1>7, <1>8
  <1>10. out.used + 4 * Len(nodeStack) - 2 <= buflen /\ Len(nodeStack) >= 2
    BY <1>2, <1>3, <1>4, <1>9
  <1>11. /\ out'.error = "JWRITE_OK" /\ out'.used <= out.used + 4 * Len(nodeStack) - 2
         /\ nodeStack' = Popped(nodeStack)
    BY <1>3, <1>10, EndFits
  <1>12. out'.used <= u + 4 * 3 - 2
    BY <1>3, <1>4, <1>11
  <1>13. out'.used \in Nat
    BY DEF TypeOK, Out
  <1>14. out'.used <= 17 + (m + p) + 0
    BY <1>5, <1>8, <1>12, <1>13
  <1>15. Types(nodeStack') = Nest2
    BY <1>3, <1>10, <1>11, PoppedOK, Nests
  <1>16. out'.used <= 17 + (k + 1) * PerStatLen(width) + Spent(0, width)
    <2>1. Spent(0, width) = 0
      BY DEF Spent
    <2>2. QED
      BY <1>6, <1>14, <2>1
  <1>17. Stage(k + 1, 0)'
    BY <1>15, <1>16 DEF Stage
  <1>18. QED
    BY <1>1, <1>2, <1>11, <1>17, Arrive

\* jwEnd of the array of the statistics.
LEMMA LastCall ==
  ASSUME IInv, Dumping, Fits, client = "stats", pc = 2 + 9 * NStats,
         jwEnd, pc' = pc + 1, TypeOK', UNCHANGED <<width, buflen>>
  PROVE  Dumping'
  <1>1. /\ NStats \in Nat /\ NStats \in 0..NStats /\ 0 \in 0..8
        /\ pc = 2 + 9 * NStats + 0 /\ pc <= 2 + 9 * NStats /\ pc # 0
        /\ pc' = 3 + 9 * NStats /\ pc' \in 0..(3 + 9 * NStats) /\ pc' # 1 /\ pc' # 0
        /\ ~ (pc' <= 2 + 9 * NStats)
    BY WriterAssumption
  <1>2. Stage(NStats, 0) /\ width \in NumberLens /\ buflen = StatsBufLen
    BY <1>1 DEF Dumping
  <1>3. /\ TypeOK /\ OK /\ out.used \in Nat /\ Below(nodeStack)
        /\ Types(nodeStack) = Nest2 /\ Len(nodeStack) = 2
        /\ nodeStack \in Seq(Entry)
    BY <1>1, <1>2, Found, Depth DEF Stage
  <1>4. PICK m \in Nat, u \in Nat, b \in Nat :
           m = NStats * PerStatLen(width) /\ u = out.used /\ b = StatsBufLen
    BY <1>1, <1>2, <1>3, Bounds
  <1>5. 25 + m <= b
    BY <1>1, <1>2, <1>4, Bounds
  <1>6. u <= 17 + m
    BY <1>2, <1>4 DEF Stage, Spent
  <1>7. u + 4 * 2 - 2 <= b
    BY <1>5, <1>6
  <1>8. out.used + 4 * Len(nodeStack) - 2 <= buflen /\ Len(nodeStack) >= 2
    BY <1>2, <1>3, <1>4, <1>7
  <1>9. /\ out'.error = "JWRITE_OK" /\ out'.used <= out.used + 4 * Len(nodeStack) - 2
        /\ nodeStack' = Popped(nodeStack)
    BY <1>3, <1>8, EndFits
  <1>10. out'.used <= u + 4 * 2 - 2
    BY <1>3, <1>4, <1>9
  <1>11. out'.used \in Nat
    BY DEF TypeOK, Out
  <1>12. out'.used <= 23 + m
    BY <1>6, <1>10, <1>11
  <1>13. Types(nodeStack') = Nest1
    BY <1>3, <1>8, <1>9, PoppedOK, Nests
  <1>14. out'.used <= 23 + NStats * PerStatLen(width)
    BY <1>4, <1>12
  <1>15. QED
    BY <1>1, <1>2, <1>9, <1>13, <1>14 DEF Dumping

\* A call of the statistics is one of these.
LEMMA DumpKeepsDumping ==
  ASSUME IInv, TypeOK', Dumping, Fits, Dump
  PROVE  Dumping'
  <1>1. /\ client = "stats" /\ pc \in 1..(2 + NStats * PerStat) /\ pc' = pc + 1
        /\ UNCHANGED <<width, buflen>> /\ (StatsCall \/ Skipped)
        /\ PerStat = 9 /\ NStats \in Nat
    BY WriterAssumption DEF Dump, PerStat, Fields, KeyLens
  <1>2. pc \in Nat /\ pc # 0 /\ pc <= 2 + 9 * NStats
    BY <1>1
  <1>3. StatsCall
    BY <1>1 DEF Skipped, OK, Dumping
  <1>4. CASE pc = 1
    BY <1>1, <1>3, <1>4, FirstCall DEF StatsCall
  <1>5. CASE pc = 2 + 9 * NStats
    <2>1. jwEnd
      BY <1>1, <1>3, <1>5 DEF StatsCall
    <2>2. QED
      BY <1>1, <1>5, <2>1, LastCall
  <1>6. CASE pc # 1 /\ pc # 2 + 9 * NStats
    <2>1. PICK k \in 0..(NStats - 1), f \in 0..8 : pc = 2 + 9 * k + f
      <3>1. (pc - 2) \div 9 \in 0..(NStats - 1) /\ (pc - 2) % 9 \in 0..8
        BY <1>1, <1>2, <1>6
      <3>2. pc = 2 + 9 * ((pc - 2) \div 9) + ((pc - 2) % 9)
        BY <1>1, <1>2, <1>6
      <3>3. QED
        BY <3>1, <3>2
    <2>2. (pc - 2) % PerStat = f
      BY <1>1, <2>1
    <2>3. pc - 2 # NStats * PerStat
      BY <1>1, <1>2, <1>6
    <2>4. CASE f = 0
      <3>1. jwArr_node("object")
        BY <1>1, <1>3, <1>6, <2>2, <2>3, <2>4 DEF StatsCall
      <3>2. pc = 2 + 9 * k
        BY <2>1, <2>4
      <3>3. QED
        BY <1>1, <3>1, <3>2, BeginCall
    <2>5. CASE f = 8
      <3>1. jwEnd
        BY <1>1, <1>3, <1>6, <2>2, <2>3, <2>5 DEF StatsCall
      <3>2. QED
        BY <1>1, <2>1, <2>5, <3>1, EndCall
    <2>6. CASE f \in 1..7
      <3>1. jwObj_value(KeyLens[f], IF f = 1 THEN Quoted(NameLen) ELSE width, "plain")
        BY <1>1, <1>3, <1>6, <2>2, <2>3, <2>6 DEF StatsCall
      <3>2. QED
        BY <1>1, <2>1, <2>6, <3>1, FieldCall
    <2>7. QED
      BY <2>4, <2>5, <2>6
  <1>7. QED
    BY <1>4, <1>5, <1>6

\* Every step of either client keeps it.
LEMMA DumpingNext == Fits /\ IInv /\ IInv' /\ Dumping /\ [Next]_vars => Dumping'
  <1> SUFFICES ASSUME Fits, IInv, IInv', Dumping, [Next]_vars PROVE Dumping'
    OBVIOUS
  <1>1. CASE AnyOpen \/ AnyInsert \/ AnyClose
    <2>1. client = "any" /\ client' = "any"
      BY <1>1 DEF AnyOpen, AnyInsert, AnyClose
    <2>2. QED
      BY <2>1 DEF Dumping
  <1>2. CASE BeginDump
    <2>1. /\ client = "stats" /\ pc' = 1 /\ width' \in NumberLens /\ UNCHANGED client
          /\ jwOpen(StatsBufLen, "object", TRUE)
      BY <1>2 DEF BeginDump
    <2>2. StatsBufLen > 0 /\ NStats \in Nat
      BY <2>1, Bounds
    <2>3. /\ out'.error = "JWRITE_OK" /\ out'.used = 1 /\ buflen' = StatsBufLen
          /\ nodeStack' = <<[nodeType |-> "object", elementNo |-> 0]>>
      BY <2>1, <2>2 DEF jwOpen
    <2>4. Types(nodeStack') = Nest1 /\ Stands(nodeStack') = "first"
      BY <2>3 DEF Types, Nest1, Stands, Last
    <2>5. pc' \in 0..(3 + 9 * NStats) /\ pc' # 3 + 9 * NStats
      BY <2>1, <2>2
    <2>6. \A k \in 0..NStats, f \in 0..8 : pc' # 2 + 9 * k + f
      BY <2>1, <2>2
    <2>7. QED
      BY <2>1, <2>3, <2>4, <2>5, <2>6 DEF Dumping
  <1>3. CASE Dump
    BY <1>3, DumpKeepsDumping DEF IInv
  <1>4. CASE EndDump
    <2>1. /\ client = "stats" /\ jwClose /\ pc' = 0 /\ pc = 3 + 9 * NStats
          /\ UNCHANGED <<client, width, buflen>> /\ NStats \in Nat
      BY <1>4, WriterAssumption DEF EndDump, PerStat, Fields, KeyLens
    <2>2. pc # 0
      BY <2>1
    <2>3. /\ TypeOK /\ OK /\ out.used \in Nat /\ width \in NumberLens /\ buflen = StatsBufLen
          /\ Types(nodeStack) = Nest1 /\ out.used <= 23 + NStats * PerStatLen(width)
      BY <2>1, <2>2, Found DEF Dumping
    <2>4. PICK m \in Nat, u \in Nat, b \in Nat :
             m = NStats * PerStatLen(width) /\ u = out.used /\ b = StatsBufLen
      BY <2>1, <2>3, Bounds
    <2>5. 25 + m <= b /\ u <= 23 + m
      BY <2>1, <2>3, <2>4, Bounds
    <2>6. u + 2 <= b
      BY <2>5
    <2>7. out.used + 2 <= buflen /\ Len(nodeStack) = 1
      BY <2>3, <2>4, <2>6, Depth
    <2>8. out'.error = "JWRITE_OK"
      BY <2>1, <2>3, <2>7, CloseFits
    <2>9. 0 \in 0..(3 + 9 * NStats) /\ 0 # 3 + 9 * NStats
      BY <2>1
    <2>10. \A k \in 0..NStats, f \in 0..8 : 0 # 2 + 9 * k + f
      BY <2>1
    <2>11. QED
      BY <2>1, <2>8, <2>9, <2>10 DEF Dumping
  <1>5. CASE UNCHANGED vars
    BY <1>5 DEF vars, Dumping, Stage
  <1>6. QED
    BY <1>1, <1>2, <1>3, <1>4, <1>5 DEF Next

\* Any number of statistics fits in a buffer of 25 characters and, for each of
\* them, 176 and the longest name and six numbers; 42 of them do in 16384.
THEOREM StatisticsFit == ASSUME Fits PROVE Spec => []StatsFit
  <1>1. Init => Dumping
    <2> SUFFICES ASSUME Init PROVE Dumping
      OBVIOUS
    <2>1. pc = 0 /\ out.error = "JWRITE_OK" /\ NStats \in Nat
      BY WriterAssumption DEF Init
    <2>2. 0 \in 0..(3 + 9 * NStats) /\ 0 # 3 + 9 * NStats
      BY <2>1
    <2>3. \A k \in 0..NStats, f \in 0..8 : 0 # 2 + 9 * k + f
      BY <2>1
    <2>4. QED
      BY <2>1, <2>2, <2>3 DEF Dumping
  <1> DEFINE StatsInv == client = "stats" => IInv
  <1>2. client' = client \/ ~[Next]_vars
    BY DEF Next, AnyOpen, AnyInsert, AnyClose, BeginDump, Dump, EndDump, vars
  <1>3. Init => StatsInv
    BY InitOK
  <1>4. StatsInv /\ [Next]_vars => StatsInv'
    BY <1>2, NextOK
  <1>5. StatsInv /\ StatsInv' /\ Dumping /\ [Next]_vars => Dumping'
    <2>1. CASE client = "stats"
      BY <1>2, <2>1, DumpingNext
    <2>2. CASE client # "stats"
      BY <1>2, <2>2 DEF Dumping
    <2>3. QED
      BY <2>1, <2>2
  <1>6. Dumping => StatsFit
    BY DEF Dumping, StatsFit, OK
  <1> HIDE DEF StatsInv
  <1>7. QED
    BY <1>1, <1>3, <1>4, <1>5, <1>6, PTL DEF Spec
===============================================================================
