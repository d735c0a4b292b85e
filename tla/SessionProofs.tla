---------------------------- MODULE SessionProofs ----------------------------
(***************************************************************************)
(* Session for every value of its constants: the types, the conversation   *)
(* with the function, the number of requests it is kept for, request       *)
(* isolation, the refinement of Container, and the requests of a serial    *)
(* platform.                                                               *)
(*                                                                         *)
(* The conversation between the function and the manager is what has to be *)
(* understood first: a reply that arrives late or twice would let the      *)
(* function leave restore_me without having been restored.  The order of   *)
(* the requests comes next: it is why none is served twice.                *)
(***************************************************************************)
EXTENDS Session, FiniteSetTheorems, TLAPS

\* What the manager can be doing about a command it has taken.
Busy == {"checkpoint", "restore", "detach", "detach_revived", "reply", "wait4"}

\* A command that will be answered is the last one in the pipe, and its sender
\* waits for the answer.
Questions ==
    \A i \in 1..Len(stdcmdout) :
        stdcmdout[i].name \notin Tells =>
            /\ i = Len(stdcmdout)
            /\ fn.at = "asking" /\ mpc = "read" /\ stdcmdin = <<>>
            /\ fn.next = "return" <=> stdcmdout[i].name = "restore.me"
            /\ fn.next = "idle" <=> num_checkpoints = 0
            /\ num_checkpoints = 0 => stdcmdout[i].name = "checkpoint.me"

\* The manager works for a function that waits; after a restore, for the one
\* that was restored.
Handling ==
    mpc \in Busy =>
        /\ fn.at = "asking" /\ stdcmdin = <<>> /\ stdcmdout = <<>>
        /\ num_checkpoints > 0
        /\ fn.next = "return" <=> mpc = "restore"
        /\ mpc \in {"checkpoint", "detach_revived"} => fn.next = "idle"

Replies ==
    stdcmdin # <<>> =>
        /\ fn.at = "asking" /\ fn.next # "return"
        /\ Len(stdcmdin) = 1 /\ mpc = "read" /\ stdcmdout = <<>>
        /\ num_checkpoints > 0

\* The first checkpoint is the only one that is stored.
Stored ==
    /\ snapshot = Unset <=> num_checkpoints = 0 \/ mpc = "checkpoint"
    /\ snapshot = Unset => fn.mem = {}
    /\ snapshot # Unset => /\ snapshot.at = "asking" /\ snapshot.next = "idle"
                           /\ snapshot.mem = {} /\ snapshot \in Function

\* Where the function can be.
Located ==
    /\ fn.at # "return"
    /\ mpc \in {"reap", "exited", "aborted", "sigpipe"} => fn.at = "dead"
    /\ fn.at = "boot" => num_checkpoints = 0
    /\ fn.at \in {"idle", "work", "done"} => num_checkpoints > 0
    /\ fn.at \in {"work", "done"} => fn.cur \in Request
    /\ fn.at = "asking" /\ fn.next = "work" => fn.cur \in Request
    /\ num_revived > 0 => num_checkpoints > 0
    /\ mpc \in {"restore", "detach_revived"} /\ Keepalive > 0 => num_revived < Keepalive - 1

IInv == TypeOK /\ Questions /\ Handling /\ Replies /\ Stored /\ Located

-------------------------------------------------------------------------------
(* Sequences. *)

\* What a reader takes from a pipe.
LEMMA TailFacts ==
    ASSUME NEW S, NEW s \in Seq(S), s # <<>>
    PROVE  /\ Tail(s) \in Seq(S) /\ Head(s) \in S /\ Head(s) = s[1]
           /\ Len(s) \in Nat /\ Len(s) > 0 /\ Len(Tail(s)) = Len(s) - 1
           /\ \A i \in 1..Len(Tail(s)) : Tail(s)[i] = s[i + 1]
  OBVIOUS

\* What a writer leaves in it.
LEMMA AppendFacts ==
    ASSUME NEW S, NEW s \in Seq(S), NEW e \in S
    PROVE  /\ Append(s, e) \in Seq(S) /\ Append(s, e) # <<>>
           /\ Len(s) \in Nat /\ Len(Append(s, e)) = Len(s) + 1
           /\ \A i \in 1..Len(s) : Append(s, e)[i] = s[i]
           /\ Append(s, e)[Len(s) + 1] = e
  OBVIOUS

LEMMA EmptyFacts ==
    ASSUME NEW S, NEW s \in Seq(S)
    PROVE  Len(s) = 0 <=> s = <<>>
  OBVIOUS

\* The last element stays the last one.
LEMMA LastOfTail ==
    ASSUME NEW S, NEW s \in Seq(S), s # <<>>, NEW i \in 1..Len(Tail(s)), i + 1 = Len(s)
    PROVE  i = Len(Tail(s))
<1>1. Len(Tail(s)) = Len(s) - 1 /\ Len(s) \in Nat
  BY TailFacts
<1>2. i \in Int
  BY <1>1
<1> QED
  BY <1>1, <1>2

-------------------------------------------------------------------------------
(* The command pipe. *)

\* The manager takes a question: the pipe is empty then, and the question is
\* the one the function waits on.
LEMMA TakeQuestion ==
    ASSUME IInv, stdcmdout # <<>>, Head(stdcmdout).name \notin Tells
    PROVE  /\ Tail(stdcmdout) = <<>> /\ Head(stdcmdout) \in Command
           /\ stdcmdin = <<>> /\ fn.at = "asking"
           /\ fn.next = "return" <=> Head(stdcmdout).name = "restore.me"
           /\ fn.next = "idle" <=> num_checkpoints = 0
           /\ num_checkpoints = 0 => Head(stdcmdout).name = "checkpoint.me"
<1>1. stdcmdout \in Seq(Command)
  BY DEF IInv, TypeOK
<1>2. /\ Tail(stdcmdout) \in Seq(Command) /\ Head(stdcmdout) = stdcmdout[1]
      /\ Head(stdcmdout) \in Command
      /\ Len(stdcmdout) \in Nat /\ Len(stdcmdout) > 0
      /\ Len(Tail(stdcmdout)) = Len(stdcmdout) - 1
  BY <1>1, TailFacts, Zenon
<1>a. 1 \in 1..Len(stdcmdout) /\ stdcmdout[1].name \notin Tells
  BY <1>2
<1>3. Len(stdcmdout) = 1
  BY <1>a DEF IInv, Questions
<1>b. Len(Tail(stdcmdout)) = 0
  BY <1>2, <1>3
<1>4. Tail(stdcmdout) = <<>>
  BY <1>2, <1>b, EmptyFacts
<1> QED
  BY <1>2, <1>3, <1>4 DEF IInv, Questions

\* The manager takes anything else: what the pipe still holds is as it was.
LEMMA TakeTell ==
    ASSUME IInv, stdcmdout # <<>>, stdcmdout' = Tail(stdcmdout),
           UNCHANGED <<fn, stdcmdin, mpc, num_checkpoints>>
    PROVE  stdcmdout' \in Seq(Command) /\ Questions'
<1>1. stdcmdout \in Seq(Command)
  BY DEF IInv, TypeOK
<1>2. /\ stdcmdout' \in Seq(Command)
      /\ Len(stdcmdout) \in Nat /\ Len(stdcmdout) > 0
      /\ Len(stdcmdout') = Len(stdcmdout) - 1
      /\ \A i \in 1..Len(stdcmdout') : stdcmdout'[i] = stdcmdout[i + 1]
  BY <1>1, TailFacts
<1>3. ASSUME NEW i \in 1..Len(stdcmdout'), stdcmdout'[i].name \notin Tells
      PROVE  /\ i = Len(stdcmdout') /\ fn'.at = "asking" /\ mpc' = "read" /\ stdcmdin' = <<>>
             /\ fn'.next = "return" <=> stdcmdout'[i].name = "restore.me"
             /\ fn'.next = "idle" <=> num_checkpoints' = 0
             /\ num_checkpoints' = 0 => stdcmdout'[i].name = "checkpoint.me"
  <2>1. i + 1 \in 1..Len(stdcmdout) /\ stdcmdout[i + 1].name \notin Tells
    BY <1>2, <1>3
  <2>2. i + 1 = Len(stdcmdout)
    BY <2>1 DEF IInv, Questions
  <2>3. i = Len(stdcmdout')
    BY <1>1, <2>2, LastOfTail
  <2> QED
    BY <1>2, <2>1, <2>3 DEF IInv, Questions
<1> QED
  BY <1>2, <1>3 DEF Questions

\* The function asks, with nothing but tells before the question.
LEMMA AskQuestion ==
    ASSUME IInv, NEW c \in Command, stdcmdout' = Append(stdcmdout, c),
           fn.at # "asking",
           UNCHANGED <<stdcmdin, mpc, num_checkpoints>>,
           fn'.at = "asking", mpc = "read", stdcmdin = <<>>,
           fn'.next = "return" <=> c.name = "restore.me",
           fn'.next = "idle" <=> num_checkpoints = 0,
           num_checkpoints = 0 => c.name = "checkpoint.me"
    PROVE  stdcmdout' \in Seq(Command) /\ Questions'
<1>1. stdcmdout \in Seq(Command)
  BY DEF IInv, TypeOK
<1>2. /\ stdcmdout' \in Seq(Command)
      /\ Len(stdcmdout) \in Nat /\ Len(stdcmdout') = Len(stdcmdout) + 1
      /\ \A i \in 1..Len(stdcmdout) : stdcmdout'[i] = stdcmdout[i]
      /\ stdcmdout'[Len(stdcmdout) + 1] = c
  BY <1>1, AppendFacts
<1>3. \A i \in 1..Len(stdcmdout) : stdcmdout[i].name \in Tells
  BY DEF IInv, Questions
<1>4. \A i \in 1..Len(stdcmdout') :
         i \in 1..Len(stdcmdout) \/ i = Len(stdcmdout) + 1
  BY <1>2
<1> QED
  BY <1>2, <1>3, <1>4 DEF Questions

-------------------------------------------------------------------------------
LEMMA InvInit == Init => IInv
<1> SUFFICES ASSUME Init PROVE IInv
  OBVIOUS
<1>1. fn \in Function
  BY SessionAssumption DEF Init, Function, None
<1>a. \A S : <<>> \in Seq(S)
  OBVIOUS
<1>b. /\ stdin_pipe \in Seq(Request) /\ queue \in Seq(Request)
      /\ stdout_pipe \in Seq(Response) /\ stdcmdout \in Seq(Command)
      /\ stdcmdin \in Seq(SUBSET Request)
  BY <1>a DEF Init
<1>c. /\ num_checkpoints \in Nat /\ submitted \in 0..MaxRequests
      /\ num_revived \in Nat /\ (Keepalive > 0 => num_revived < Keepalive)
  BY SessionAssumption DEF Init
<1>2. TypeOK
  BY <1>1, <1>b, <1>c DEF Init, TypeOK
<1>3. Questions /\ Handling /\ Replies
  BY DEF Init, Questions, Handling, Replies, Busy
<1>4. Stored /\ Located
  BY SessionAssumption DEF Init, Stored, Located, Unset
<1> QED
  BY <1>2, <1>3, <1>4 DEF IInv

LEMMA InvNext == IInv /\ [Next]_vars => IInv'
<1> SUFFICES ASSUME IInv, [Next]_vars PROVE IInv'
  OBVIOUS
<1> USE SessionAssumption DEF Request, None, fnPipes, manager, platform
<1>1. CASE Submit
  <2>a. submitted' \in Request /\ queue \in Seq(Request)
    BY <1>1 DEF Submit, IInv, TypeOK
  <2>b. queue' \in Seq(Request)
    BY <1>1, <2>a, AppendFacts DEF Submit
  <2>1. TypeOK'
    BY <1>1, <2>a, <2>b DEF Submit, IInv, TypeOK
  <2>2. Questions'
    BY <1>1 DEF Submit, IInv, TypeOK, Questions, Handling, Replies, Stored, Located, Busy,
       Asks, Tells, Function, Response, Command, Unset, Unsaved, ACK
  <2>3. Handling'
    BY <1>1 DEF Submit, IInv, TypeOK, Questions, Handling, Replies, Stored, Located, Busy,
       Asks, Tells, Function, Response, Command, Unset, Unsaved, ACK
  <2>4. Replies'
    BY <1>1 DEF Submit, IInv, TypeOK, Questions, Handling, Replies, Stored, Located, Busy,
       Asks, Tells, Function, Response, Command, Unset, Unsaved, ACK
  <2>5. Stored'
    BY <1>1 DEF Submit, IInv, TypeOK, Questions, Handling, Replies, Stored, Located, Busy,
       Asks, Tells, Function, Response, Command, Unset, Unsaved, ACK
  <2>6. Located'
    BY <1>1 DEF Submit, IInv, TypeOK, Questions, Handling, Replies, Stored, Located, Busy,
       Asks, Tells, Function, Response, Command, Unset, Unsaved, ACK
  <2> QED BY <2>1, <2>2, <2>3, <2>4, <2>5, <2>6 DEF IInv
<1>2. CASE handle_stdin
  <2>a. queue' \in Seq(Request) /\ Head(queue) \in Request
    BY <1>2, TailFacts DEF handle_stdin, IInv, TypeOK
  <2>b. stdin_pipe' \in Seq(Request)
    <3>1. CASE fn.at = "dead"
      BY <1>2, <3>1 DEF handle_stdin, IInv, TypeOK
    <3>2. CASE fn.at # "dead"
      <4>1. stdin_pipe' = Append(stdin_pipe, Head(queue)) /\ stdin_pipe \in Seq(Request)
        BY <1>2, <3>2 DEF handle_stdin, IInv, TypeOK
      <4> QED
        BY <2>a, <4>1, AppendFacts
    <3> QED
      BY <3>1, <3>2
  <2>1. TypeOK'
    BY <1>2, <2>a, <2>b DEF handle_stdin, IInv, TypeOK
  <2>2. Questions'
    BY <1>2 DEF handle_stdin, Ended, IInv, TypeOK, Questions, Handling, Replies, Stored,
       Located, Busy, Asks, Tells, Function, Response, Command, Unset, Unsaved, ACK
  <2>3. Handling'
    BY <1>2 DEF handle_stdin, Ended, IInv, TypeOK, Questions, Handling, Replies, Stored,
       Located, Busy, Asks, Tells, Function, Response, Command, Unset, Unsaved, ACK
  <2>4. Replies'
    BY <1>2 DEF handle_stdin, Ended, IInv, TypeOK, Questions, Handling, Replies, Stored,
       Located, Busy, Asks, Tells, Function, Response, Command, Unset, Unsaved, ACK
  <2>5. Stored'
    BY <1>2 DEF handle_stdin, Ended, IInv, TypeOK, Questions, Handling, Replies, Stored,
       Located, Busy, Asks, Tells, Function, Response, Command, Unset, Unsaved, ACK
  <2>6. Located'
    BY <1>2 DEF handle_stdin, Ended, IInv, TypeOK, Questions, Handling, Replies, Stored,
       Located, Busy, Asks, Tells, Function, Response, Command, Unset, Unsaved, ACK
  <2> QED BY <2>1, <2>2, <2>3, <2>4, <2>5, <2>6 DEF IInv
<1>3. CASE handle_stdout
  <2>a. stdout_pipe' \in Seq(Response) /\ Head(stdout_pipe) \in Response
    BY <1>3, TailFacts DEF handle_stdout, IInv, TypeOK
  <2>1. TypeOK'
    BY <1>3, <2>a DEF handle_stdout, IInv, TypeOK
  <2>2. Questions'
    BY <1>3 DEF handle_stdout, Ended, IInv, TypeOK, Questions, Handling, Replies, Stored,
       Located, Busy, Asks, Tells, Function, Response, Command, Unset, Unsaved, ACK
  <2>3. Handling'
    BY <1>3 DEF handle_stdout, Ended, IInv, TypeOK, Questions, Handling, Replies, Stored,
       Located, Busy, Asks, Tells, Function, Response, Command, Unset, Unsaved, ACK
  <2>4. Replies'
    BY <1>3 DEF handle_stdout, Ended, IInv, TypeOK, Questions, Handling, Replies, Stored,
       Located, Busy, Asks, Tells, Function, Response, Command, Unset, Unsaved, ACK
  <2>5. Stored'
    BY <1>3 DEF handle_stdout, Ended, IInv, TypeOK, Questions, Handling, Replies, Stored,
       Located, Busy, Asks, Tells, Function, Response, Command, Unset, Unsaved, ACK
  <2>6. Located'
    BY <1>3 DEF handle_stdout, Ended, IInv, TypeOK, Questions, Handling, Replies, Stored,
       Located, Busy, Asks, Tells, Function, Response, Command, Unset, Unsaved, ACK
  <2> QED BY <2>1, <2>2, <2>3, <2>4, <2>5, <2>6 DEF IInv
<1>4. CASE checkpoint_me
  <2> DEFINE c == [name |-> "checkpoint.me", data |-> fn.mem]
  <2>a. /\ c \in Command /\ stdcmdout' = Append(stdcmdout, c)
        /\ fn' = [fn EXCEPT !.at = "asking", !.next = "idle"]
        /\ fn' \in Function
    BY <1>4 DEF checkpoint_me, Runs, Ask, IInv, TypeOK, Function, Command, Asks
  <2>b. /\ fn'.at = "asking" /\ fn'.next = "idle" /\ fn'.mem = fn.mem /\ fn'.cur = fn.cur
        /\ c.name = "checkpoint.me"
    BY <2>a DEF IInv, TypeOK, Function
  <2>c. mpc = "read" /\ stdcmdin = <<>> /\ (num_checkpoints = 0 <=> "idle" = "idle")
    BY <1>4 DEF checkpoint_me, Runs, Ask, IInv, TypeOK, Questions, Handling, Replies,
       Stored, Located, Busy, Asks, Tells, Function, Response, Command, Unset, Unsaved,
       ACK
  <2>d. stdcmdout' \in Seq(Command) /\ Questions'
    BY <1>4, <2>a, <2>b, <2>c, AskQuestion DEF checkpoint_me, Runs, Ask
  <2>1. TypeOK'
    BY <1>4, <2>a, <2>d DEF checkpoint_me, Runs, Ask, IInv, TypeOK
  <2>2. Questions'
    BY <2>d
  <2>3. Handling'
    BY <1>4 DEF checkpoint_me, Runs, Ask, IInv, TypeOK, Questions, Handling, Replies,
       Stored, Located, Busy, Asks, Tells, Function, Response, Command, Unset, Unsaved,
       ACK
  <2>4. Replies'
    BY <1>4 DEF checkpoint_me, Runs, Ask, IInv, TypeOK, Questions, Handling, Replies,
       Stored, Located, Busy, Asks, Tells, Function, Response, Command, Unset, Unsaved,
       ACK
  <2>5. Stored'
    BY <1>4, <2>b DEF checkpoint_me, Runs, Ask, IInv, Stored
  <2>6. Located'
    BY <1>4 DEF checkpoint_me, Runs, Ask, IInv, TypeOK, Questions, Handling, Replies,
       Stored, Located, Busy, Asks, Tells, Function, Response, Command, Unset, Unsaved,
       ACK
  <2> QED BY <2>1, <2>2, <2>3, <2>4, <2>5, <2>6 DEF IInv
<1>5. CASE restore_me
  <2> DEFINE c == [name |-> "restore.me", data |-> fn.mem]
  <2>a. /\ c \in Command /\ stdcmdout' = Append(stdcmdout, c)
        /\ fn' = [fn EXCEPT !.at = "asking", !.next = "return"]
        /\ fn' \in Function
    BY <1>5 DEF restore_me, Runs, Ask, IInv, TypeOK, Function, Command, Asks
  <2>b. /\ fn'.at = "asking" /\ fn'.next = "return" /\ fn'.mem = fn.mem /\ fn'.cur = fn.cur
        /\ c.name = "restore.me"
    BY <2>a DEF IInv, TypeOK, Function
  <2>c. mpc = "read" /\ stdcmdin = <<>> /\ (num_checkpoints = 0 <=> "return" = "idle")
    BY <1>5 DEF restore_me, Runs, Ask, IInv, TypeOK, Questions, Handling, Replies, Stored,
       Located, Busy, Asks, Tells, Function, Response, Command, Unset, Unsaved, ACK
  <2>d. stdcmdout' \in Seq(Command) /\ Questions'
    BY <1>5, <2>a, <2>b, <2>c, AskQuestion DEF restore_me, Runs, Ask
  <2>1. TypeOK'
    BY <1>5, <2>a, <2>d DEF restore_me, Runs, Ask, IInv, TypeOK
  <2>2. Questions'
    BY <2>d
  <2>3. Handling'
    BY <1>5 DEF restore_me, Runs, Ask, IInv, TypeOK, Questions, Handling, Replies, Stored,
       Located, Busy, Asks, Tells, Function, Response, Command, Unset, Unsaved, ACK
  <2>4. Replies'
    BY <1>5 DEF restore_me, Runs, Ask, IInv, TypeOK, Questions, Handling, Replies, Stored,
       Located, Busy, Asks, Tells, Function, Response, Command, Unset, Unsaved, ACK
  <2>5. Stored'
    BY <1>5, <2>b DEF restore_me, Runs, Ask, IInv, Stored
  <2>6. Located'
    BY <1>5 DEF restore_me, Runs, Ask, IInv, TypeOK, Questions, Handling, Replies, Stored,
       Located, Busy, Asks, Tells, Function, Response, Command, Unset, Unsaved, ACK
  <2> QED BY <2>1, <2>2, <2>3, <2>4, <2>5, <2>6 DEF IInv
<1>6. CASE FnAsk
  <2>0. PICK name \in Calls \cap Asks :
          /\ Runs("work") /\ fn.left > 0
          /\ stdcmdout' = Append(stdcmdout, [name |-> name, data |-> fn.mem])
          /\ fn' = [fn EXCEPT !.at = "asking", !.next = "work", !.left = @ - 1]
          /\ UNCHANGED <<stdin_pipe, stdout_pipe, stdcmdin>>
    BY <1>6 DEF FnAsk
  <2> DEFINE c == [name |-> name, data |-> fn.mem]
  <2>a. c \in Command /\ c.name = name /\ name # "restore.me"
    BY DEF IInv, TypeOK, Function, Command, Asks
  <2>e. fn' \in Function
    <3>a. fn \in Function /\ fn.left \in 0..MaxCalls
      BY DEF IInv, TypeOK, Function
    <3>1. fn.left - 1 \in 0..MaxCalls
      BY <2>0, <3>a
    <3> QED
      BY <2>0, <3>a, <3>1 DEF Function
  <2>b. /\ fn'.at = "asking" /\ fn'.next = "work" /\ fn'.mem = fn.mem /\ fn'.cur = fn.cur
    BY <2>0 DEF IInv, TypeOK, Function
  <2>c. mpc = "read" /\ stdcmdin = <<>> /\ num_checkpoints > 0 /\ num_checkpoints # 0
    BY <2>0 DEF Runs, IInv, TypeOK, Questions, Handling, Replies, Stored, Located, Busy,
       Asks, Tells, Function, Response, Command, Unset, Unsaved, ACK
  <2>d. stdcmdout' \in Seq(Command) /\ Questions'
    BY <2>0, <2>a, <2>b, <2>c, AskQuestion DEF Runs
  <2>1. TypeOK'
    BY <2>0, <2>a, <2>d, <2>e DEF Runs, IInv, TypeOK
  <2>2. Questions'
    BY <2>d
  <2>3. Handling'
    BY <2>0, <2>b, <2>c DEF Runs, IInv, Handling, Busy
  <2>4. Replies'
    BY <2>0, <2>b, <2>c DEF Runs, IInv, Replies
  <2>5. Stored'
    BY <2>0, <2>b, <2>c DEF Runs, IInv, Stored
  <2>6. Located'
    BY <2>0, <2>b, <2>c DEF Runs, IInv, Located
  <2> QED BY <2>1, <2>2, <2>3, <2>4, <2>5, <2>6 DEF IInv
<1>7. CASE FnTell
  <2>0. PICK name \in Calls \cap Tells :
          /\ Runs("work") /\ fn.left > 0
          /\ stdcmdout' = Append(stdcmdout, [name |-> name, data |-> {}])
          /\ fn' = [fn EXCEPT !.left = @ - 1]
          /\ UNCHANGED <<stdin_pipe, stdout_pipe, stdcmdin>>
    BY <1>7 DEF FnTell
  <2> DEFINE c == [name |-> name, data |-> {}]
  <2>a. c \in Command /\ c.name \in Tells /\ stdcmdout \in Seq(Command)
    BY DEF IInv, TypeOK, Command
  <2>e. fn' \in Function
    <3>a. fn \in Function /\ fn.left \in 0..MaxCalls
      BY DEF IInv, TypeOK, Function
    <3>1. fn.left - 1 \in 0..MaxCalls
      BY <2>0, <3>a
    <3> QED
      BY <2>0, <3>a, <3>1 DEF Function
  <2>b. /\ fn'.at = "work" /\ fn'.next = fn.next /\ fn'.mem = fn.mem /\ fn'.cur = fn.cur
        /\ fn.at = "work"
    BY <2>0 DEF Runs, IInv, TypeOK, Function
  <2>c. /\ stdcmdout' \in Seq(Command)
        /\ Len(stdcmdout) \in Nat /\ Len(stdcmdout') = Len(stdcmdout) + 1
        /\ \A i \in 1..Len(stdcmdout) : stdcmdout'[i] = stdcmdout[i]
        /\ stdcmdout'[Len(stdcmdout) + 1] = c
    BY <2>0, <2>a, AppendFacts
  <2>d. \A i \in 1..Len(stdcmdout') :
          i \in 1..Len(stdcmdout) \/ i = Len(stdcmdout) + 1
    BY <2>c
  <2>1. TypeOK'
    BY <2>0, <2>a, <2>c, <2>e DEF Runs, IInv, TypeOK
  <2>2. Questions'
    BY <2>a, <2>b, <2>c, <2>d DEF IInv, Questions
  <2>3. Handling'
    BY <2>0, <2>b DEF Runs, IInv, Handling, Busy
  <2>4. Replies'
    BY <2>0, <2>b DEF Runs, IInv, Replies
  <2>5. Stored'
    BY <2>0, <2>b DEF Runs, IInv, Stored
  <2>6. Located'
    BY <2>0, <2>b DEF Runs, IInv, Located
  <2> QED BY <2>1, <2>2, <2>3, <2>4, <2>5, <2>6 DEF IInv
<1>8. CASE FnReply
  <2>a. /\ stdcmdin' \in Seq(SUBSET Request) /\ Head(stdcmdin) \in SUBSET Request
        /\ Len(stdcmdin') = Len(stdcmdin) - 1
    BY <1>8, TailFacts DEF FnReply, IInv, TypeOK
  <2>b. fn' \in Function
    BY <1>8, <2>a DEF FnReply, IInv, TypeOK, Function
  <2>c. stdcmdin' = <<>>
    BY <1>8, <2>a, EmptyFacts DEF FnReply, IInv, Replies
  <2>1. TypeOK'
    BY <1>8, <2>a, <2>b DEF FnReply, Runs, IInv, TypeOK
  <2>2. Questions'
    BY <1>8 DEF FnReply, Runs, IInv, TypeOK, Questions, Handling, Replies, Stored,
       Located, Busy, Asks, Tells, Function, Response, Command, Unset, Unsaved, ACK
  <2>3. Handling'
    BY <1>8 DEF FnReply, Runs, IInv, TypeOK, Questions, Handling, Replies, Stored,
       Located, Busy, Asks, Tells, Function, Response, Command, Unset, Unsaved, ACK
  <2>4. Replies'
    BY <2>c DEF Replies
  <2>5. Stored'
    BY <1>8 DEF FnReply, Runs, IInv, TypeOK, Questions, Handling, Replies, Stored,
       Located, Busy, Asks, Tells, Function, Response, Command, Unset, Unsaved, ACK
  <2>6. Located'
    BY <1>8 DEF FnReply, Runs, IInv, TypeOK, Questions, Handling, Replies, Stored,
       Located, Busy, Asks, Tells, Function, Response, Command, Unset, Unsaved, ACK
  <2> QED BY <2>1, <2>2, <2>3, <2>4, <2>5, <2>6 DEF IInv
<1>9. CASE FnRead
  <2> DEFINE input == IF fn.buf # <<>> THEN fn.buf ELSE stdin_pipe
  <2>0. /\ fn.at = "idle" \/ fn.at = "return"
        /\ UNCHANGED <<manager, platform>>
        /\ input # <<>>
        /\ fn' = [fn EXCEPT !.at = "work", !.cur = Head(input), !.buf = Tail(input),
                            !.mem = @ \cup {Head(input)}, !.left = MaxCalls]
        /\ stdin_pipe' = IF fn.buf # <<>> THEN stdin_pipe ELSE <<>>
        /\ UNCHANGED <<stdout_pipe, stdcmdout, stdcmdin>>
    BY <1>9 DEF FnRead, Runs
  <2>a. input \in Seq(Request) /\ stdin_pipe' \in Seq(Request)
    BY <2>0 DEF IInv, TypeOK, Function
  <2>b. Head(input) \in Request /\ Tail(input) \in Seq(Request)
    BY <2>0, <2>a, TailFacts
  <2>c. fn' \in Function /\ fn'.at = "work" /\ fn'.cur = Head(input) /\ fn'.next = fn.next
    <3> HIDE DEF input
    <3>1. fn \in Function /\ MaxCalls \in 0..MaxCalls
      BY DEF IInv, TypeOK
    <3> QED
      BY <2>0, <2>b, <3>1 DEF Function
  <2>d. num_checkpoints > 0 /\ mpc = "read" /\ stdcmdin = <<>>
    BY <2>0 DEF IInv, TypeOK, Located, Handling, Replies, Busy
  <2>e. snapshot # Unset
    BY <2>d DEF IInv, Stored
  <2> HIDE DEF input
  <2>1. TypeOK'
    BY <2>0, <2>a, <2>c DEF IInv, TypeOK
  <2>2. Questions'
    BY <2>0, <2>c DEF IInv, Questions
  <2>3. Handling'
    BY <2>0, <2>c, <2>d DEF IInv, Handling, Busy
  <2>4. Replies'
    BY <2>0, <2>d DEF IInv, Replies
  <2>5. Stored'
    BY <2>0, <2>d, <2>e DEF IInv, Stored
  <2>6. Located'
    BY <2>0, <2>b, <2>c, <2>d DEF IInv, Located
  <2> QED BY <2>1, <2>2, <2>3, <2>4, <2>5, <2>6 DEF IInv
<1>10. CASE FnRespond
  <2>a. fn' \in Function /\ [req |-> fn.cur, data |-> fn.mem] \in Response
    BY <1>10 DEF FnRespond, Runs, IInv, TypeOK, Function, Response, Located
  <2>b. stdout_pipe' \in Seq(Response)
    BY <1>10, <2>a, AppendFacts DEF FnRespond, IInv, TypeOK
  <2>1. TypeOK'
    BY <1>10, <2>a, <2>b DEF FnRespond, Runs, IInv, TypeOK
  <2>2. Questions'
    BY <1>10 DEF FnRespond, Runs, IInv, TypeOK, Questions, Handling, Replies, Stored,
       Located, Busy, Asks, Tells, Function, Response, Command, Unset, Unsaved, ACK
  <2>3. Handling'
    BY <1>10 DEF FnRespond, Runs, IInv, TypeOK, Questions, Handling, Replies, Stored,
       Located, Busy, Asks, Tells, Function, Response, Command, Unset, Unsaved, ACK
  <2>4. Replies'
    BY <1>10 DEF FnRespond, Runs, IInv, TypeOK, Questions, Handling, Replies, Stored,
       Located, Busy, Asks, Tells, Function, Response, Command, Unset, Unsaved, ACK
  <2>5. Stored'
    BY <1>10 DEF FnRespond, Runs, IInv, TypeOK, Questions, Handling, Replies, Stored,
       Located, Busy, Asks, Tells, Function, Response, Command, Unset, Unsaved, ACK
  <2>6. Located'
    BY <1>10 DEF FnRespond, Runs, IInv, TypeOK, Questions, Handling, Replies, Stored,
       Located, Busy, Asks, Tells, Function, Response, Command, Unset, Unsaved, ACK
  <2> QED BY <2>1, <2>2, <2>3, <2>4, <2>5, <2>6 DEF IInv
<1>11. CASE FnExit
  <2>1. TypeOK'
    BY <1>11 DEF FnExit, Runs, IInv, TypeOK, Questions, Handling, Replies, Stored,
       Located, Busy, Asks, Tells, Function, Response, Command, Unset, Unsaved, ACK
  <2>2. Questions'
    BY <1>11 DEF FnExit, Runs, IInv, TypeOK, Questions, Handling, Replies, Stored,
       Located, Busy, Asks, Tells, Function, Response, Command, Unset, Unsaved, ACK
  <2>3. Handling'
    BY <1>11 DEF FnExit, Runs, IInv, TypeOK, Questions, Handling, Replies, Stored,
       Located, Busy, Asks, Tells, Function, Response, Command, Unset, Unsaved, ACK
  <2>4. Replies'
    BY <1>11 DEF FnExit, Runs, IInv, TypeOK, Questions, Handling, Replies, Stored,
       Located, Busy, Asks, Tells, Function, Response, Command, Unset, Unsaved, ACK
  <2>5. Stored'
    BY <1>11 DEF FnExit, Runs, IInv, TypeOK, Questions, Handling, Replies, Stored,
       Located, Busy, Asks, Tells, Function, Response, Command, Unset, Unsaved, ACK
  <2>6. Located'
    BY <1>11 DEF FnExit, Runs, IInv, TypeOK, Questions, Handling, Replies, Stored,
       Located, Busy, Asks, Tells, Function, Response, Command, Unset, Unsaved, ACK
  <2> QED BY <2>1, <2>2, <2>3, <2>4, <2>5, <2>6 DEF IInv
<1>12. CASE CmdCheckpoint
  <2>a. /\ mpc = "read" /\ stdcmdout # <<>> /\ Head(stdcmdout).name \in {"checkpoint.me"}
        /\ Head(stdcmdout).name \notin Tells
        /\ stdcmdout' = Tail(stdcmdout)
    BY <1>12 DEF CmdCheckpoint, GetCommand, Tells
  <2>b. /\ stdcmdout' = <<>> /\ Head(stdcmdout) \in Command
        /\ stdcmdin = <<>> /\ fn.at = "asking"
        /\ fn.next = "return" <=> Head(stdcmdout).name = "restore.me"
        /\ fn.next = "idle" <=> num_checkpoints = 0
        /\ num_checkpoints = 0 => Head(stdcmdout).name = "checkpoint.me"
    BY <2>a, TakeQuestion
  <2>2. Questions'
    BY <2>b DEF Questions
  <2>1. TypeOK'
    <3>1. stdcmdout' \in Seq(Command) /\ num_checkpoints' \in Nat
      BY <1>12, <2>b DEF CmdCheckpoint, IInv, TypeOK
    <3>2. mpc' \in {"checkpoint", "wait4"} /\ stopped' \in BOOLEAN
      BY <1>12, Zenon DEF CmdCheckpoint, IInv, TypeOK
    <3> QED
      BY <1>12, <2>b, <3>1, <3>2 DEF CmdCheckpoint, GetCommand, IInv, TypeOK
  <2>3. Handling'
    BY <1>12, <2>a, <2>b DEF CmdCheckpoint, GetCommand, IInv, TypeOK, Handling, Busy
  <2>4. Replies'
    BY <1>12, <2>a, <2>b DEF CmdCheckpoint, GetCommand, IInv, TypeOK, Replies
  <2>5. Stored'
    BY <1>12, <2>a, <2>b DEF CmdCheckpoint, GetCommand, IInv, TypeOK, Stored
  <2>6. Located'
    BY <1>12, <2>a, <2>b DEF CmdCheckpoint, GetCommand, IInv, TypeOK, Located
  <2> QED BY <2>1, <2>2, <2>3, <2>4, <2>5, <2>6 DEF IInv
<1>13. CASE checkpoint_process
  <2>1. TypeOK'
    BY <1>13 DEF checkpoint_process, Step, IInv, TypeOK, Questions, Handling, Replies,
       Stored, Located, Busy, Asks, Tells, Function, Response, Command, Unset, Unsaved,
       ACK
  <2>2. Questions'
    BY <1>13 DEF checkpoint_process, Step, IInv, TypeOK, Questions, Handling, Replies,
       Stored, Located, Busy, Asks, Tells, Function, Response, Command, Unset, Unsaved,
       ACK
  <2>3. Handling'
    BY <1>13 DEF checkpoint_process, Step, IInv, TypeOK, Questions, Handling, Replies,
       Stored, Located, Busy, Asks, Tells, Function, Response, Command, Unset, Unsaved,
       ACK
  <2>4. Replies'
    BY <1>13 DEF checkpoint_process, Step, IInv, TypeOK, Questions, Handling, Replies,
       Stored, Located, Busy, Asks, Tells, Function, Response, Command, Unset, Unsaved,
       ACK
  <2>5. Stored'
    BY <1>13 DEF checkpoint_process, Step, IInv, TypeOK, Questions, Handling, Replies,
       Stored, Located, Busy, Asks, Tells, Function, Response, Command, Unset, Unsaved,
       ACK
  <2>6. Located'
    BY <1>13 DEF checkpoint_process, Step, IInv, TypeOK, Questions, Handling, Replies,
       Stored, Located, Busy, Asks, Tells, Function, Response, Command, Unset, Unsaved,
       ACK
  <2> QED BY <2>1, <2>2, <2>3, <2>4, <2>5, <2>6 DEF IInv
<1>14. CASE CmdRestore
  <2>a. /\ mpc = "read" /\ stdcmdout # <<>> /\ Head(stdcmdout).name \in {"restore.me"}
        /\ Head(stdcmdout).name \notin Tells
        /\ stdcmdout' = Tail(stdcmdout)
    BY <1>14 DEF CmdRestore, GetCommand, Tells
  <2>b. /\ stdcmdout' = <<>> /\ Head(stdcmdout) \in Command
        /\ stdcmdin = <<>> /\ fn.at = "asking"
        /\ fn.next = "return" <=> Head(stdcmdout).name = "restore.me"
        /\ fn.next = "idle" <=> num_checkpoints = 0
        /\ num_checkpoints = 0 => Head(stdcmdout).name = "checkpoint.me"
    BY <2>a, TakeQuestion
  <2>2. Questions'
    BY <2>b DEF Questions
  <2>c. fn' \in Function /\ fn'.next = fn.next /\ fn'.cur = fn.cur /\ fn'.mem = fn.mem
        /\ fn'.at \in {"dead", "asking"}
    BY <1>14, <2>b DEF CmdRestore, IInv, TypeOK, Function
  <2>1. TypeOK'
    <3>1. stdcmdout' \in Seq(Command) /\ num_checkpoints' \in Nat
      BY <1>14, <2>b DEF CmdRestore, IInv, TypeOK
    <3>2. mpc' \in {"restore", "reap"} /\ stopped' \in BOOLEAN
      BY <1>14, Zenon DEF CmdRestore, IInv, TypeOK
    <3> QED
      BY <1>14, <2>b, <2>c, <3>1, <3>2 DEF CmdRestore, GetCommand, IInv, TypeOK
  <2>3. Handling'
    BY <1>14, <2>a, <2>b, <2>c DEF CmdRestore, GetCommand, IInv, TypeOK, Handling, Busy
  <2>4. Replies'
    BY <1>14, <2>a, <2>b, <2>c DEF CmdRestore, GetCommand, IInv, TypeOK, Replies
  <2>5. Stored'
    BY <1>14, <2>a, <2>b, <2>c DEF CmdRestore, GetCommand, IInv, TypeOK, Stored
  <2>6. Located'
    <3>a. mpc' = "restore" => num_revived # Keepalive - 1
      BY <1>14 DEF CmdRestore
    <3>b. num_revived' = num_revived
      BY <1>14 DEF CmdRestore
    <3>1. mpc' = "restore" /\ Keepalive > 0 => num_revived' < Keepalive - 1
      BY <3>a, <3>b DEF IInv, TypeOK
    <3>2. mpc' \in {"restore", "reap"} /\ (mpc' = "reap" => fn'.at = "dead")
      BY <1>14 DEF CmdRestore, IInv, TypeOK, Function
    <3> QED
      BY <1>14, <2>b, <2>c, <3>1, <3>2 DEF CmdRestore, IInv, Located
  <2> QED BY <2>1, <2>2, <2>3, <2>4, <2>5, <2>6 DEF IInv
<1>15. CASE restore_process
  <2>1. TypeOK'
    BY <1>15 DEF restore_process, Step, IInv, TypeOK, Questions, Handling, Replies,
       Stored, Located, Busy, Asks, Tells, Function, Response, Command, Unset, Unsaved,
       ACK
  <2>2. Questions'
    BY <1>15 DEF restore_process, Step, IInv, TypeOK, Questions, Handling, Replies,
       Stored, Located, Busy, Asks, Tells, Function, Response, Command, Unset, Unsaved,
       ACK
  <2>3. Handling'
    BY <1>15 DEF restore_process, Step, IInv, TypeOK, Questions, Handling, Replies,
       Stored, Located, Busy, Asks, Tells, Function, Response, Command, Unset, Unsaved,
       ACK
  <2>4. Replies'
    BY <1>15 DEF restore_process, Step, IInv, TypeOK, Questions, Handling, Replies,
       Stored, Located, Busy, Asks, Tells, Function, Response, Command, Unset, Unsaved,
       ACK
  <2>5. Stored'
    BY <1>15 DEF restore_process, Step, IInv, TypeOK, Questions, Handling, Replies,
       Stored, Located, Busy, Asks, Tells, Function, Response, Command, Unset, Unsaved,
       ACK
  <2>6. Located'
    BY <1>15 DEF restore_process, Step, IInv, TypeOK, Questions, Handling, Replies,
       Stored, Located, Busy, Asks, Tells, Function, Response, Command, Unset, Unsaved,
       ACK
  <2> QED BY <2>1, <2>2, <2>3, <2>4, <2>5, <2>6 DEF IInv
<1>16. CASE CmdDiff
  <2>a. /\ mpc = "read" /\ stdcmdout # <<>> /\ Head(stdcmdout).name \in {"diff.me"}
        /\ Head(stdcmdout).name \notin Tells
        /\ stdcmdout' = Tail(stdcmdout)
    BY <1>16 DEF CmdDiff, GetCommand, Tells
  <2>b. /\ stdcmdout' = <<>> /\ Head(stdcmdout) \in Command
        /\ stdcmdin = <<>> /\ fn.at = "asking"
        /\ fn.next = "return" <=> Head(stdcmdout).name = "restore.me"
        /\ fn.next = "idle" <=> num_checkpoints = 0
        /\ num_checkpoints = 0 => Head(stdcmdout).name = "checkpoint.me"
    BY <2>a, TakeQuestion
  <2>2. Questions'
    BY <2>b DEF Questions
  <2>1. TypeOK'
    BY <1>16, <2>a, <2>b DEF CmdDiff, GetCommand, IInv, TypeOK, Located
  <2>3. Handling'
    BY <1>16, <2>a, <2>b DEF CmdDiff, GetCommand, IInv, TypeOK, Handling, Busy
  <2>4. Replies'
    BY <1>16, <2>a, <2>b DEF CmdDiff, GetCommand, IInv, TypeOK, Replies
  <2>5. Stored'
    BY <1>16, <2>a, <2>b DEF CmdDiff, GetCommand, IInv, TypeOK, Stored
  <2>6. Located'
    BY <1>16, <2>a, <2>b DEF CmdDiff, GetCommand, IInv, TypeOK, Located
  <2> QED BY <2>1, <2>2, <2>3, <2>4, <2>5, <2>6 DEF IInv
<1>17. CASE ptrace_detach
  <2>1. TypeOK'
    BY <1>17 DEF ptrace_detach, Step, IInv, TypeOK, Questions, Handling, Replies, Stored,
       Located, Busy, Asks, Tells, Function, Response, Command, Unset, Unsaved, ACK
  <2>2. Questions'
    BY <1>17 DEF ptrace_detach, Step, IInv, TypeOK, Questions, Handling, Replies, Stored,
       Located, Busy, Asks, Tells, Function, Response, Command, Unset, Unsaved, ACK
  <2>3. Handling'
    BY <1>17 DEF ptrace_detach, Step, IInv, TypeOK, Questions, Handling, Replies, Stored,
       Located, Busy, Asks, Tells, Function, Response, Command, Unset, Unsaved, ACK
  <2>4. Replies'
    BY <1>17 DEF ptrace_detach, Step, IInv, TypeOK, Questions, Handling, Replies, Stored,
       Located, Busy, Asks, Tells, Function, Response, Command, Unset, Unsaved, ACK
  <2>5. Stored'
    BY <1>17 DEF ptrace_detach, Step, IInv, TypeOK, Questions, Handling, Replies, Stored,
       Located, Busy, Asks, Tells, Function, Response, Command, Unset, Unsaved, ACK
  <2>6. Located'
    BY <1>17 DEF ptrace_detach, Step, IInv, TypeOK, Questions, Handling, Replies, Stored,
       Located, Busy, Asks, Tells, Function, Response, Command, Unset, Unsaved, ACK
  <2> QED BY <2>1, <2>2, <2>3, <2>4, <2>5, <2>6 DEF IInv
<1>18. CASE DetachRevived
  <2>a. num_revived' \in Nat /\ (Keepalive > 0 => num_revived' < Keepalive)
    BY <1>18 DEF DetachRevived, Step, IInv, TypeOK, Located
  <2>1. TypeOK'
    BY <1>18, <2>a DEF DetachRevived, Step, IInv, TypeOK
  <2>2. Questions'
    BY <1>18 DEF DetachRevived, Step, IInv, TypeOK, Questions, Handling, Replies, Stored,
       Located, Busy, Asks, Tells, Function, Response, Command, Unset, Unsaved, ACK
  <2>3. Handling'
    BY <1>18 DEF DetachRevived, Step, IInv, TypeOK, Questions, Handling, Replies, Stored,
       Located, Busy, Asks, Tells, Function, Response, Command, Unset, Unsaved, ACK
  <2>4. Replies'
    BY <1>18 DEF DetachRevived, Step, IInv, TypeOK, Questions, Handling, Replies, Stored,
       Located, Busy, Asks, Tells, Function, Response, Command, Unset, Unsaved, ACK
  <2>5. Stored'
    BY <1>18 DEF DetachRevived, Step, IInv, TypeOK, Questions, Handling, Replies, Stored,
       Located, Busy, Asks, Tells, Function, Response, Command, Unset, Unsaved, ACK
  <2>6. Located'
    BY <1>18 DEF DetachRevived, Step, IInv, TypeOK, Questions, Handling, Replies, Stored,
       Located, Busy, Asks, Tells, Function, Response, Command, Unset, Unsaved, ACK
  <2> QED BY <2>1, <2>2, <2>3, <2>4, <2>5, <2>6 DEF IInv
<1>19. CASE CmdAckOnly
  <2>a. /\ mpc = "read" /\ stdcmdout # <<>> /\ Head(stdcmdout).name \in {"dump_stats.me", "nop.me"}
        /\ Head(stdcmdout).name \notin Tells
        /\ stdcmdout' = Tail(stdcmdout)
    BY <1>19 DEF CmdAckOnly, GetCommand, Tells
  <2>b. /\ stdcmdout' = <<>> /\ Head(stdcmdout) \in Command
        /\ stdcmdin = <<>> /\ fn.at = "asking"
        /\ fn.next = "return" <=> Head(stdcmdout).name = "restore.me"
        /\ fn.next = "idle" <=> num_checkpoints = 0
        /\ num_checkpoints = 0 => Head(stdcmdout).name = "checkpoint.me"
    BY <2>a, TakeQuestion
  <2>2. Questions'
    BY <2>b DEF Questions
  <2>1. TypeOK'
    BY <1>19, <2>a, <2>b DEF CmdAckOnly, GetCommand, IInv, TypeOK, Located
  <2>3. Handling'
    BY <1>19, <2>a, <2>b DEF CmdAckOnly, GetCommand, IInv, TypeOK, Handling, Busy
  <2>4. Replies'
    BY <1>19, <2>a, <2>b DEF CmdAckOnly, GetCommand, IInv, TypeOK, Replies
  <2>5. Stored'
    BY <1>19, <2>a, <2>b DEF CmdAckOnly, GetCommand, IInv, TypeOK, Stored
  <2>6. Located'
    BY <1>19, <2>a, <2>b DEF CmdAckOnly, GetCommand, IInv, TypeOK, Located
  <2> QED BY <2>1, <2>2, <2>3, <2>4, <2>5, <2>6 DEF IInv
<1>20. CASE CmdSaveFor
  <2>a. /\ mpc = "read" /\ stdcmdout # <<>> /\ Head(stdcmdout).name \in {"save_for.me"}
        /\ Head(stdcmdout).name \notin Tells
        /\ stdcmdout' = Tail(stdcmdout)
    BY <1>20 DEF CmdSaveFor, GetCommand, Tells
  <2>b. /\ stdcmdout' = <<>> /\ Head(stdcmdout) \in Command
        /\ stdcmdin = <<>> /\ fn.at = "asking"
        /\ fn.next = "return" <=> Head(stdcmdout).name = "restore.me"
        /\ fn.next = "idle" <=> num_checkpoints = 0
        /\ num_checkpoints = 0 => Head(stdcmdout).name = "checkpoint.me"
    BY <2>a, TakeQuestion
  <2>2. Questions'
    BY <2>b DEF Questions
  <2>c. scratchmem' \in SUBSET Request
    BY <1>20, <2>b DEF CmdSaveFor, Command
  <2>1. TypeOK'
    BY <1>20, <2>a, <2>b, <2>c DEF CmdSaveFor, GetCommand, IInv, TypeOK, Located
  <2>3. Handling'
    BY <1>20, <2>a, <2>b, <2>c DEF CmdSaveFor, GetCommand, IInv, TypeOK, Handling, Busy
  <2>4. Replies'
    BY <1>20, <2>a, <2>b, <2>c DEF CmdSaveFor, GetCommand, IInv, TypeOK, Replies
  <2>5. Stored'
    BY <1>20, <2>a, <2>b, <2>c DEF CmdSaveFor, GetCommand, IInv, TypeOK, Stored
  <2>6. Located'
    BY <1>20, <2>a, <2>b, <2>c DEF CmdSaveFor, GetCommand, IInv, TypeOK, Located
  <2> QED BY <2>1, <2>2, <2>3, <2>4, <2>5, <2>6 DEF IInv
<1>21. CASE CmdGiveBack
  <2>a. /\ mpc = "read" /\ stdcmdout # <<>> /\ Head(stdcmdout).name \in {"give_back.me"}
        /\ Head(stdcmdout).name \notin Tells
        /\ stdcmdout' = Tail(stdcmdout)
    BY <1>21 DEF CmdGiveBack, GetCommand, Tells
  <2>b. /\ stdcmdout' = <<>> /\ Head(stdcmdout) \in Command
        /\ stdcmdin = <<>> /\ fn.at = "asking"
        /\ fn.next = "return" <=> Head(stdcmdout).name = "restore.me"
        /\ fn.next = "idle" <=> num_checkpoints = 0
        /\ num_checkpoints = 0 => Head(stdcmdout).name = "checkpoint.me"
    BY <2>a, TakeQuestion
  <2>2. Questions'
    BY <2>b DEF Questions
  <2>c. stdcmdin' \in Seq(SUBSET Request) /\ (stdcmdin' # <<>> => Len(stdcmdin') = 1)
    <3>1. \A e \in SUBSET Request : Append(<<>>, e) \in Seq(SUBSET Request)
                                    /\ Len(Append(<<>>, e)) = 1
      BY AppendFacts
    <3>2. scratchmem # Unsaved => scratchmem \in SUBSET Request
      BY Zenon DEF IInv, TypeOK
    <3>3. \/ stdcmdin' = <<>>
          \/ \E e \in SUBSET Request : stdcmdin' = Append(<<>>, e)
      BY <1>21, <2>b, <3>2 DEF CmdGiveBack
    <3>4. <<>> \in Seq(SUBSET Request)
      OBVIOUS
    <3> QED
      BY <3>1, <3>3, <3>4
  <2>1. TypeOK'
    BY <1>21, <2>a, <2>b, <2>c DEF CmdGiveBack, IInv, TypeOK, Located
  <2>3. Handling'
    BY <1>21, <2>a, <2>b, <2>c DEF CmdGiveBack, IInv, TypeOK, Handling, Busy
  <2>4. Replies'
    BY <1>21, <2>a, <2>b, <2>c DEF CmdGiveBack, IInv, TypeOK, Replies
  <2>5. Stored'
    BY <1>21, <2>a, <2>b, <2>c DEF CmdGiveBack, IInv, TypeOK, Stored
  <2>6. Located'
    BY <1>21, <2>a, <2>b, <2>c DEF CmdGiveBack, IInv, TypeOK, Located
  <2> QED BY <2>1, <2>2, <2>3, <2>4, <2>5, <2>6 DEF IInv
<1>22. CASE CmdNoReply
  <2>a. stdcmdout' \in Seq(Command) /\ Questions'
    BY <1>22, TakeTell DEF CmdNoReply, GetCommand
  <2>1. TypeOK'
    BY <1>22, <2>a DEF CmdNoReply, GetCommand, IInv, TypeOK
  <2>2. Questions'
    BY <2>a
  <2>3. Handling'
    BY <1>22 DEF CmdNoReply, GetCommand, IInv, TypeOK, Questions, Handling, Replies,
       Stored, Located, Busy, Asks, Tells, Function, Response, Command, Unset, Unsaved,
       ACK
  <2>4. Replies'
    BY <1>22 DEF CmdNoReply, GetCommand, IInv, TypeOK, Questions, Handling, Replies,
       Stored, Located, Busy, Asks, Tells, Function, Response, Command, Unset, Unsaved,
       ACK
  <2>5. Stored'
    BY <1>22 DEF CmdNoReply, GetCommand, IInv, TypeOK, Questions, Handling, Replies,
       Stored, Located, Busy, Asks, Tells, Function, Response, Command, Unset, Unsaved,
       ACK
  <2>6. Located'
    BY <1>22 DEF CmdNoReply, GetCommand, IInv, TypeOK, Questions, Handling, Replies,
       Stored, Located, Busy, Asks, Tells, Function, Response, Command, Unset, Unsaved,
       ACK
  <2> QED BY <2>1, <2>2, <2>3, <2>4, <2>5, <2>6 DEF IInv
<1>23. CASE WriteACK
  <2>1. TypeOK'
    BY <1>23 DEF WriteACK, IInv, TypeOK, Questions, Handling, Replies, Stored, Located,
       Busy, Asks, Tells, Function, Response, Command, Unset, Unsaved, ACK
  <2>2. Questions'
    BY <1>23 DEF WriteACK, IInv, TypeOK, Questions, Handling, Replies, Stored, Located,
       Busy, Asks, Tells, Function, Response, Command, Unset, Unsaved, ACK
  <2>3. Handling'
    BY <1>23 DEF WriteACK, IInv, TypeOK, Questions, Handling, Replies, Stored, Located,
       Busy, Asks, Tells, Function, Response, Command, Unset, Unsaved, ACK
  <2>4. Replies'
    BY <1>23 DEF WriteACK, IInv, TypeOK, Questions, Handling, Replies, Stored, Located,
       Busy, Asks, Tells, Function, Response, Command, Unset, Unsaved, ACK
  <2>5. Stored'
    BY <1>23 DEF WriteACK, IInv, TypeOK, Questions, Handling, Replies, Stored, Located,
       Busy, Asks, Tells, Function, Response, Command, Unset, Unsaved, ACK
  <2>6. Located'
    BY <1>23 DEF WriteACK, IInv, TypeOK, Questions, Handling, Replies, Stored, Located,
       Busy, Asks, Tells, Function, Response, Command, Unset, Unsaved, ACK
  <2> QED BY <2>1, <2>2, <2>3, <2>4, <2>5, <2>6 DEF IInv
<1>24. CASE CmdEOF
  <2>1. TypeOK'
    BY <1>24 DEF CmdEOF, Step, IInv, TypeOK, Questions, Handling, Replies, Stored,
       Located, Busy, Asks, Tells, Function, Response, Command, Unset, Unsaved, ACK
  <2>2. Questions'
    BY <1>24 DEF CmdEOF, Step, IInv, TypeOK, Questions, Handling, Replies, Stored,
       Located, Busy, Asks, Tells, Function, Response, Command, Unset, Unsaved, ACK
  <2>3. Handling'
    BY <1>24 DEF CmdEOF, Step, IInv, TypeOK, Questions, Handling, Replies, Stored,
       Located, Busy, Asks, Tells, Function, Response, Command, Unset, Unsaved, ACK
  <2>4. Replies'
    BY <1>24 DEF CmdEOF, Step, IInv, TypeOK, Questions, Handling, Replies, Stored,
       Located, Busy, Asks, Tells, Function, Response, Command, Unset, Unsaved, ACK
  <2>5. Stored'
    BY <1>24 DEF CmdEOF, Step, IInv, TypeOK, Questions, Handling, Replies, Stored,
       Located, Busy, Asks, Tells, Function, Response, Command, Unset, Unsaved, ACK
  <2>6. Located'
    BY <1>24 DEF CmdEOF, Step, IInv, TypeOK, Questions, Handling, Replies, Stored,
       Located, Busy, Asks, Tells, Function, Response, Command, Unset, Unsaved, ACK
  <2> QED BY <2>1, <2>2, <2>3, <2>4, <2>5, <2>6 DEF IInv
<1>25. CASE ControllerExit
  <2>1. TypeOK'
    BY <1>25 DEF ControllerExit, Step, IInv, TypeOK, Questions, Handling, Replies, Stored,
       Located, Busy, Asks, Tells, Function, Response, Command, Unset, Unsaved, ACK
  <2>2. Questions'
    BY <1>25 DEF ControllerExit, Step, IInv, TypeOK, Questions, Handling, Replies, Stored,
       Located, Busy, Asks, Tells, Function, Response, Command, Unset, Unsaved, ACK
  <2>3. Handling'
    BY <1>25 DEF ControllerExit, Step, IInv, TypeOK, Questions, Handling, Replies, Stored,
       Located, Busy, Asks, Tells, Function, Response, Command, Unset, Unsaved, ACK
  <2>4. Replies'
    BY <1>25 DEF ControllerExit, Step, IInv, TypeOK, Questions, Handling, Replies, Stored,
       Located, Busy, Asks, Tells, Function, Response, Command, Unset, Unsaved, ACK
  <2>5. Stored'
    BY <1>25 DEF ControllerExit, Step, IInv, TypeOK, Questions, Handling, Replies, Stored,
       Located, Busy, Asks, Tells, Function, Response, Command, Unset, Unsaved, ACK
  <2>6. Located'
    BY <1>25 DEF ControllerExit, Step, IInv, TypeOK, Questions, Handling, Replies, Stored,
       Located, Busy, Asks, Tells, Function, Response, Command, Unset, Unsaved, ACK
  <2> QED BY <2>1, <2>2, <2>3, <2>4, <2>5, <2>6 DEF IInv
<1>26. CASE UNCHANGED vars
  BY <1>26 DEF vars, IInv, TypeOK, Questions, Handling, Replies, Stored, Located
<1> QED
  BY <1>1, <1>2, <1>3, <1>4, <1>5, <1>6, <1>7, <1>8, <1>9, <1>10, <1>11, <1>12, <1>13,
     <1>14, <1>15, <1>16, <1>17, <1>18, <1>19, <1>20, <1>21, <1>22, <1>23, <1>24, <1>25, <1>26
  DEF Next, FnNext, ManagerNext
-------------------------------------------------------------------------------
(* Theorems. *)

\* Type correctness of the manager, its pipes and the function, for any number
\* of requests and calls: in particular num_revived never reaches Keepalive.
THEOREM TypeCorrect == Spec => []TypeOK
<1>1. IInv => TypeOK
  BY DEF IInv
<1> QED
  BY InvInit, InvNext, <1>1, PTL DEF Spec

-------------------------------------------------------------------------------
(* Keepalive. *)

\* A function that does not exit by itself is dead only because the manager
\* killed it.
Killed == fn.at = "dead" => num_revived >= Keepalive - 1 /\ mpc \in {"reap", "exited", "sigpipe"}

LEMMA KilledNext ==
    ASSUME "exit" \notin Calls
    PROVE  IInv /\ Killed /\ [Next]_vars => Killed'
<1> SUFFICES ASSUME IInv, Killed, [Next]_vars PROVE Killed'
  OBVIOUS
<1> USE SessionAssumption DEF fnPipes, manager, platform
<1>1. CASE Submit
  BY <1>1 DEF Submit, Killed, IInv, TypeOK, Function, Handling, Stored, Located, Busy
<1>2. CASE handle_stdin
  BY <1>2 DEF handle_stdin, Killed, IInv, TypeOK, Function, Handling, Stored, Located, Busy
<1>3. CASE handle_stdout
  BY <1>3 DEF handle_stdout, Killed, IInv, TypeOK, Function, Handling, Stored, Located, Busy
<1>4. CASE checkpoint_me
  BY <1>4 DEF checkpoint_me, Runs, Ask, Killed, IInv, TypeOK, Function, Handling, Stored, Located, Busy
<1>5. CASE restore_me
  BY <1>5 DEF restore_me, Runs, Ask, Killed, IInv, TypeOK, Function, Handling, Stored, Located, Busy
<1>6. CASE FnAsk
  BY <1>6 DEF FnAsk, Runs, Killed, IInv, TypeOK, Function, Handling, Stored, Located, Busy
<1>7. CASE FnTell
  BY <1>7 DEF FnTell, Runs, Killed, IInv, TypeOK, Function, Handling, Stored, Located, Busy
<1>8. CASE FnReply
  BY <1>8 DEF FnReply, Runs, Killed, IInv, TypeOK, Function, Handling, Stored, Located, Busy
<1>9. CASE FnRead
  BY <1>9 DEF FnRead, Runs, Killed, IInv, TypeOK, Function, Handling, Stored, Located, Busy
<1>10. CASE FnRespond
  BY <1>10 DEF FnRespond, Runs, Killed, IInv, TypeOK, Function, Handling, Stored, Located, Busy
<1>11. CASE FnExit
  BY <1>11 DEF FnExit, Runs, Killed, IInv, TypeOK, Function, Handling, Stored, Located, Busy
<1>12. CASE CmdCheckpoint
  BY <1>12 DEF CmdCheckpoint, GetCommand, Killed, IInv, TypeOK, Function, Handling, Stored, Located, Busy
<1>13. CASE checkpoint_process
  BY <1>13 DEF checkpoint_process, Step, Killed, IInv, TypeOK, Function, Handling, Stored, Located, Busy
<1>14. CASE CmdRestore
  <2>1. num_revived' = num_revived /\ num_revived \in Nat /\ fn.at = "asking"
    <3>1. stdcmdout # <<>> /\ Head(stdcmdout).name \notin Tells
      BY <1>14 DEF CmdRestore, GetCommand, Tells
    <3> QED
      BY <1>14, <3>1, TakeQuestion DEF CmdRestore, IInv, TypeOK
  <2>2. CASE num_revived = Keepalive - 1
    BY <1>14, <2>1, <2>2 DEF CmdRestore, Killed
  <2>3. CASE num_revived # Keepalive - 1
    <3>1. fn' = fn
      BY <1>14, <2>3 DEF CmdRestore
    <3> QED
      BY <2>1, <3>1 DEF Killed
  <2> QED
    BY <2>2, <2>3
<1>15. CASE restore_process
  BY <1>15 DEF restore_process, Step, Killed, IInv, TypeOK, Function, Handling, Stored, Located, Busy
<1>16. CASE CmdDiff
  BY <1>16 DEF CmdDiff, GetCommand, Killed, IInv, TypeOK, Function, Handling, Stored, Located, Busy
<1>17. CASE ptrace_detach
  BY <1>17 DEF ptrace_detach, Step, Killed, IInv, TypeOK, Function, Handling, Stored, Located, Busy
<1>18. CASE DetachRevived
  BY <1>18 DEF DetachRevived, Step, Killed, IInv, TypeOK, Function, Handling, Stored, Located, Busy
<1>19. CASE CmdAckOnly
  BY <1>19 DEF CmdAckOnly, GetCommand, Killed, IInv, TypeOK, Function, Handling, Stored, Located, Busy
<1>20. CASE CmdSaveFor
  BY <1>20 DEF CmdSaveFor, GetCommand, Killed, IInv, TypeOK, Function, Handling, Stored, Located, Busy
<1>21. CASE CmdGiveBack
  BY <1>21 DEF CmdGiveBack, Killed, IInv, TypeOK, Function, Handling, Stored, Located, Busy
<1>22. CASE CmdNoReply
  BY <1>22 DEF CmdNoReply, GetCommand, Killed, IInv, TypeOK, Function, Handling, Stored, Located, Busy
<1>23. CASE WriteACK
  BY <1>23 DEF WriteACK, Killed, IInv, TypeOK, Function, Handling, Stored, Located, Busy
<1>24. CASE CmdEOF
  BY <1>24 DEF CmdEOF, Step, Killed, IInv, TypeOK, Function, Handling, Stored, Located, Busy
<1>25. CASE ControllerExit
  BY <1>25 DEF ControllerExit, Step, Killed, IInv, TypeOK, Function, Handling, Stored, Located, Busy
<1>26. CASE UNCHANGED vars
  BY <1>26 DEF vars, Killed
<1> QED
  BY <1>1, <1>2, <1>3, <1>4, <1>5, <1>6, <1>7, <1>8, <1>9, <1>10, <1>11, <1>12, <1>13,
     <1>14, <1>15, <1>16, <1>17, <1>18, <1>19, <1>20, <1>21, <1>22, <1>23, <1>24, <1>25, <1>26
  DEF Next, FnNext, ManagerNext

\* The assertion at the end of controller holds as long as the function does not
\* exit by itself: the manager is the one who ends it, after Keepalive requests.
THEOREM KeptAlive ==
    ASSUME "exit" \notin Calls
    PROVE  Spec => []KeptAliveLongEnough
<1>1. Init => Killed
  BY DEF Init, Killed
<1>2. IInv /\ Killed => KeptAliveLongEnough
  BY DEF IInv, Killed, Located, KeptAliveLongEnough
<1> QED
  BY InvInit, InvNext, KilledNext, <1>1, <1>2, PTL DEF Spec

-------------------------------------------------------------------------------
(* Request isolation. *)

\* What the manager can hand to the function carries no request's data, if
\* nothing was saved.
NothingKept ==
    /\ scratchmem = Unsaved
    /\ \A i \in 1..Len(stdcmdout) : stdcmdout[i].name # "save_for.me"
    /\ \A i \in 1..Len(stdcmdin) : stdcmdin[i] = {}

\* The function is clean before it reads, and has used one request after.
Memory ==
    /\ fn.at \in {"boot", "idle"} \/ (fn.at = "asking" /\ fn.next = "idle") => fn.mem = {}
    /\ fn.at = "work" \/ (fn.at = "asking" /\ fn.next = "work") => fn.mem = {fn.cur}

Outputs ==
    /\ \A i \in 1..Len(stdout_pipe) : stdout_pipe[i].data = {stdout_pipe[i].req}
    /\ Isolated

LEMMA NothingKeptNext ==
    ASSUME "save_for.me" \notin Calls
    PROVE  IInv /\ NothingKept /\ [Next]_vars => NothingKept'
<1> SUFFICES ASSUME IInv, NothingKept, [Next]_vars PROVE NothingKept'
  OBVIOUS
<1> USE SessionAssumption DEF fnPipes, manager, platform
<1>0. stdcmdout \in Seq(Command) /\ stdcmdin \in Seq(SUBSET Request)
  BY DEF IInv, TypeOK
<1>1. CASE Submit
  BY <1>1 DEF Submit, NothingKept
<1>2. CASE handle_stdin
  BY <1>2 DEF handle_stdin, NothingKept
<1>3. CASE handle_stdout
  BY <1>3 DEF handle_stdout, NothingKept
<1>4. CASE checkpoint_me
  <2>1. PICK c : c \in Command /\ c.name = "checkpoint.me" /\ stdcmdout' = Append(stdcmdout, c)
    <3>1. [name |-> "checkpoint.me", data |-> fn.mem] \in Command
      BY DEF IInv, TypeOK, Function, Command, Asks
    <3> QED
      BY <1>4, <3>1 DEF checkpoint_me, Ask
  <2>2. \A i \in 1..Len(stdcmdout') : stdcmdout'[i].name # "save_for.me"
    BY <1>0, <2>1, AppendFacts DEF NothingKept
  <2> QED
    BY <1>4, <2>2 DEF checkpoint_me, Runs, Ask, NothingKept
<1>5. CASE restore_me
  <2>1. PICK c : c \in Command /\ c.name = "restore.me" /\ stdcmdout' = Append(stdcmdout, c)
    <3>1. [name |-> "restore.me", data |-> fn.mem] \in Command
      BY DEF IInv, TypeOK, Function, Command, Asks
    <3> QED
      BY <1>5, <3>1 DEF restore_me, Ask
  <2>2. \A i \in 1..Len(stdcmdout') : stdcmdout'[i].name # "save_for.me"
    BY <1>0, <2>1, AppendFacts DEF NothingKept
  <2> QED
    BY <1>5, <2>2 DEF restore_me, Runs, Ask, NothingKept
<1>6. CASE FnAsk
  <2>1. PICK c : c \in Command /\ c.name # "save_for.me" /\ stdcmdout' = Append(stdcmdout, c)
    <3>1. \A name \in Calls \cap Asks :
            [name |-> name, data |-> fn.mem] \in Command /\ name # "save_for.me"
      BY DEF IInv, TypeOK, Function, Command
    <3> QED
      BY <1>6, <3>1 DEF FnAsk
  <2>2. \A i \in 1..Len(stdcmdout') : stdcmdout'[i].name # "save_for.me"
    BY <1>0, <2>1, AppendFacts DEF NothingKept
  <2> QED
    BY <1>6, <2>2 DEF FnAsk, Runs, NothingKept
<1>7. CASE FnTell
  <2>1. PICK c : c \in Command /\ c.name # "save_for.me" /\ stdcmdout' = Append(stdcmdout, c)
    <3>1. \A name \in Calls \cap Tells :
            [name |-> name, data |-> {}] \in Command /\ name # "save_for.me"
      BY DEF IInv, TypeOK, Function, Command
    <3> QED
      BY <1>7, <3>1 DEF FnTell
  <2>2. \A i \in 1..Len(stdcmdout') : stdcmdout'[i].name # "save_for.me"
    BY <1>0, <2>1, AppendFacts DEF NothingKept
  <2> QED
    BY <1>7, <2>2 DEF FnTell, Runs, NothingKept
<1>8. CASE FnReply
  <2>1. \A i \in 1..Len(stdcmdin') : stdcmdin'[i] = {}
    <3>1. stdcmdin # <<>> /\ stdcmdin' = Tail(stdcmdin)
      BY <1>8 DEF FnReply
    <3>2. /\ Len(stdcmdin) \in Nat /\ Len(stdcmdin') = Len(stdcmdin) - 1
          /\ \A i \in 1..Len(stdcmdin') : stdcmdin'[i] = stdcmdin[i + 1]
      BY <1>0, <3>1, TailFacts
    <3>3. \A i \in 1..Len(stdcmdin') : i + 1 \in 1..Len(stdcmdin)
      BY <3>2
    <3> QED
      BY <3>2, <3>3 DEF NothingKept
  <2> QED
    BY <1>8, <2>1 DEF FnReply, Runs, NothingKept
<1>9. CASE FnRead
  BY <1>9 DEF FnRead, Runs, NothingKept
<1>10. CASE FnRespond
  BY <1>10 DEF FnRespond, Runs, NothingKept
<1>11. CASE FnExit
  BY <1>11 DEF FnExit, Runs, NothingKept
<1>12. CASE CmdCheckpoint
  <2>1. \A i \in 1..Len(stdcmdout') : stdcmdout'[i].name # "save_for.me"
    BY <1>0, <1>12, TailFacts DEF CmdCheckpoint, GetCommand, NothingKept
  <2> QED
    BY <1>12, <2>1 DEF CmdCheckpoint, GetCommand, NothingKept
<1>13. CASE checkpoint_process
  BY <1>13 DEF checkpoint_process, Step, NothingKept
<1>14. CASE CmdRestore
  <2>1. \A i \in 1..Len(stdcmdout') : stdcmdout'[i].name # "save_for.me"
    <3>1. stdcmdout # <<>> /\ stdcmdout' = Tail(stdcmdout)
      BY <1>14 DEF CmdRestore, GetCommand
    <3> QED
      BY <1>0, <3>1, TailFacts DEF NothingKept
  <2> QED
    BY <1>14, <2>1 DEF CmdRestore, GetCommand, NothingKept
<1>15. CASE restore_process
  BY <1>15 DEF restore_process, Step, NothingKept
<1>16. CASE CmdDiff
  <2>1. \A i \in 1..Len(stdcmdout') : stdcmdout'[i].name # "save_for.me"
    BY <1>0, <1>16, TailFacts DEF CmdDiff, GetCommand, NothingKept
  <2> QED
    BY <1>16, <2>1 DEF CmdDiff, GetCommand, NothingKept
<1>17. CASE ptrace_detach
  BY <1>17 DEF ptrace_detach, Step, NothingKept
<1>18. CASE DetachRevived
  BY <1>18 DEF DetachRevived, Step, NothingKept
<1>19. CASE CmdAckOnly
  <2>1. \A i \in 1..Len(stdcmdout') : stdcmdout'[i].name # "save_for.me"
    BY <1>0, <1>19, TailFacts DEF CmdAckOnly, GetCommand, NothingKept
  <2> QED
    BY <1>19, <2>1 DEF CmdAckOnly, GetCommand, NothingKept
<1>20. CASE CmdSaveFor
  <2>1. Head(stdcmdout) = stdcmdout[1] /\ 1 \in 1..Len(stdcmdout)
    BY <1>0, <1>20, TailFacts DEF CmdSaveFor, GetCommand
  <2> QED
    BY <1>20, <2>1 DEF CmdSaveFor, GetCommand, NothingKept
<1>21. CASE CmdGiveBack
  <2>1. \A i \in 1..Len(stdcmdout') : stdcmdout'[i].name # "save_for.me"
    BY <1>0, <1>21, TailFacts DEF CmdGiveBack, NothingKept
  <2>2. stdcmdin' = stdcmdin \/ stdcmdin' = Append(stdcmdin, {})
    BY <1>21 DEF CmdGiveBack, NothingKept
  <2>3. \A i \in 1..Len(stdcmdin') : stdcmdin'[i] = {}
    BY <1>0, <2>2, AppendFacts DEF NothingKept
  <2> QED
    BY <1>21, <2>1, <2>3 DEF CmdGiveBack, NothingKept
<1>22. CASE CmdNoReply
  <2>1. \A i \in 1..Len(stdcmdout') : stdcmdout'[i].name # "save_for.me"
    BY <1>0, <1>22, TailFacts DEF CmdNoReply, GetCommand, NothingKept
  <2> QED
    BY <1>22, <2>1 DEF CmdNoReply, GetCommand, NothingKept
<1>23. CASE WriteACK
  <2>1. \A i \in 1..Len(stdcmdin') : stdcmdin'[i] = {}
    BY <1>0, <1>23, AppendFacts DEF WriteACK, NothingKept, ACK
  <2> QED
    BY <1>23, <2>1 DEF WriteACK, NothingKept
<1>24. CASE CmdEOF
  BY <1>24 DEF CmdEOF, Step, NothingKept
<1>25. CASE ControllerExit
  BY <1>25 DEF ControllerExit, Step, NothingKept
<1>26. CASE UNCHANGED vars
  BY <1>26 DEF vars, NothingKept
<1> QED
  BY <1>1, <1>2, <1>3, <1>4, <1>5, <1>6, <1>7, <1>8, <1>9, <1>10, <1>11, <1>12, <1>13,
     <1>14, <1>15, <1>16, <1>17, <1>18, <1>19, <1>20, <1>21, <1>22, <1>23, <1>24, <1>25, <1>26
  DEF Next, FnNext, ManagerNext

LEMMA MemoryNext == IInv /\ NothingKept /\ Memory /\ [Next]_vars => Memory'
<1> SUFFICES ASSUME IInv, NothingKept, Memory, [Next]_vars PROVE Memory'
  OBVIOUS
<1> USE SessionAssumption DEF fnPipes, manager, platform
<1>0. fn \in Function
  BY DEF IInv, TypeOK
<1>1. CASE Submit
  BY <1>0, <1>1 DEF Submit, Memory, Function
<1>2. CASE handle_stdin
  BY <1>0, <1>2 DEF handle_stdin, Memory, Function
<1>3. CASE handle_stdout
  BY <1>0, <1>3 DEF handle_stdout, Memory, Function
<1>4. CASE checkpoint_me
  BY <1>0, <1>4 DEF checkpoint_me, Runs, Ask, Memory, Function
<1>5. CASE restore_me
  BY <1>0, <1>5 DEF restore_me, Runs, Ask, Memory, Function
<1>6. CASE FnAsk
  BY <1>0, <1>6 DEF FnAsk, Runs, Memory, Function
<1>7. CASE FnTell
  BY <1>0, <1>7 DEF FnTell, Runs, Memory, Function
<1>8. CASE FnReply
  <2>1. stdcmdin \in Seq(SUBSET Request) /\ stdcmdin # <<>>
    BY <1>8 DEF FnReply, IInv, TypeOK
  <2>2. Head(stdcmdin) = {}
    BY <2>1, TailFacts DEF NothingKept
  <2>3. fn'.at = fn.next /\ fn'.mem = fn.mem /\ fn'.cur = fn.cur /\ fn'.next = fn.next
    BY <1>0, <1>8, <2>2 DEF FnReply, Function
  <2>4. fn.at = "asking" /\ fn.next \in {"idle", "work", "return"}
    BY <1>0, <1>8 DEF FnReply, Runs, Function
  <2> QED
    BY <2>3, <2>4 DEF Memory
<1>9. CASE FnRead
  <2>1. fn.at = "idle"
    BY <1>9 DEF FnRead, Runs, IInv, Located
  <2>2. PICK x, y : fn' = [fn EXCEPT !.at = "work", !.cur = x, !.buf = y,
                                     !.mem = @ \cup {x}, !.left = MaxCalls]
    BY <1>9, Zenon DEF FnRead
  <2>3. fn'.at = "work" /\ fn'.cur = x /\ fn'.mem = fn.mem \cup {x}
    BY <1>0, <2>2 DEF Function
  <2> QED
    BY <2>1, <2>3 DEF Memory
<1>10. CASE FnRespond
  BY <1>0, <1>10 DEF FnRespond, Runs, Memory, Function
<1>11. CASE FnExit
  BY <1>0, <1>11 DEF FnExit, Runs, Memory, Function
<1>12. CASE CmdCheckpoint
  BY <1>0, <1>12 DEF CmdCheckpoint, GetCommand, Memory, Function
<1>13. CASE checkpoint_process
  BY <1>0, <1>13 DEF checkpoint_process, Step, Memory, Function
<1>14. CASE CmdRestore
  BY <1>0, <1>14 DEF CmdRestore, GetCommand, Memory, Function
<1>15. CASE restore_process
  <2>1. snapshot # Unset
    BY <1>15 DEF restore_process, Step, IInv, Stored, Handling, Busy, TypeOK
  <2> QED
    BY <1>15, <2>1 DEF restore_process, Memory, IInv, Stored
<1>16. CASE CmdDiff
  BY <1>0, <1>16 DEF CmdDiff, GetCommand, Memory, Function
<1>17. CASE ptrace_detach
  BY <1>0, <1>17 DEF ptrace_detach, Step, Memory, Function
<1>18. CASE DetachRevived
  BY <1>0, <1>18 DEF DetachRevived, Step, Memory, Function
<1>19. CASE CmdAckOnly
  BY <1>0, <1>19 DEF CmdAckOnly, GetCommand, Memory, Function
<1>20. CASE CmdSaveFor
  BY <1>0, <1>20 DEF CmdSaveFor, GetCommand, Memory, Function
<1>21. CASE CmdGiveBack
  BY <1>0, <1>21 DEF CmdGiveBack, Memory, Function
<1>22. CASE CmdNoReply
  BY <1>0, <1>22 DEF CmdNoReply, GetCommand, Memory, Function
<1>23. CASE WriteACK
  BY <1>0, <1>23 DEF WriteACK, Memory, Function
<1>24. CASE CmdEOF
  BY <1>0, <1>24 DEF CmdEOF, Step, Memory, Function
<1>25. CASE ControllerExit
  BY <1>0, <1>25 DEF ControllerExit, Step, Memory, Function
<1>26. CASE UNCHANGED vars
  BY <1>26 DEF vars, Memory
<1> QED
  BY <1>1, <1>2, <1>3, <1>4, <1>5, <1>6, <1>7, <1>8, <1>9, <1>10, <1>11, <1>12, <1>13,
     <1>14, <1>15, <1>16, <1>17, <1>18, <1>19, <1>20, <1>21, <1>22, <1>23, <1>24, <1>25, <1>26
  DEF Next, FnNext, ManagerNext

LEMMA OutputsNext == IInv /\ Memory /\ Outputs /\ [Next]_vars => Outputs'
<1> SUFFICES ASSUME IInv, Memory, Outputs, [Next]_vars PROVE Outputs'
  OBVIOUS
<1> USE DEF fnPipes, manager, platform
<1>0. stdout_pipe \in Seq(Response)
  BY DEF IInv, TypeOK
<1>1. CASE handle_stdout
  <2>1. /\ Head(stdout_pipe) = stdout_pipe[1] /\ 1 \in 1..Len(stdout_pipe)
        /\ \A i \in 1..Len(stdout_pipe') :
             i + 1 \in 1..Len(stdout_pipe) /\ stdout_pipe'[i] = stdout_pipe[i + 1]
    BY <1>0, <1>1, TailFacts DEF handle_stdout
  <2> QED
    BY <1>1, <2>1 DEF handle_stdout, Outputs, Isolated
<1>2. CASE FnRespond
  <2> DEFINE e == [req |-> fn.cur, data |-> fn.mem]
  <2>1. e \in Response /\ e.data = {e.req}
    BY <1>2 DEF FnRespond, Runs, Memory, IInv, TypeOK, Located, Function, Response
  <2>2. stdout_pipe' = Append(stdout_pipe, e) /\ answers' = answers
    BY <1>2 DEF FnRespond, Runs
  <2> HIDE DEF e
  <2>3. \A i \in 1..Len(stdout_pipe') : stdout_pipe'[i].data = {stdout_pipe'[i].req}
    BY <1>0, <2>1, <2>2, AppendFacts DEF Outputs
  <2> QED
    BY <2>2, <2>3 DEF Outputs, Isolated
<1>3. CASE UNCHANGED <<stdout_pipe, answers>>
  BY <1>3 DEF Outputs, Isolated
<1>4. CASE Submit \/ handle_stdin \/ FnExit
  BY <1>3, <1>4 DEF Submit, handle_stdin, FnExit, Runs
<1>5. CASE checkpoint_me \/ restore_me \/ FnAsk \/ FnTell \/ FnReply \/ FnRead
  BY <1>3, <1>5 DEF checkpoint_me, restore_me, FnAsk, FnTell, FnReply, FnRead, Runs, Ask
<1>6. CASE ManagerNext
  BY <1>3, <1>6 DEF ManagerNext, CmdCheckpoint, checkpoint_process, CmdRestore, restore_process,
     CmdDiff, ptrace_detach, DetachRevived, CmdAckOnly, CmdSaveFor, CmdGiveBack, CmdNoReply,
     WriteACK, CmdEOF, ControllerExit, GetCommand, Step
<1>7. CASE UNCHANGED vars
  BY <1>3, <1>7 DEF vars
<1> QED
  BY <1>1, <1>2, <1>4, <1>5, <1>6, <1>7 DEF Next, FnNext

\* Request isolation, for any number of requests, pipelined or not, any keepalive
\* and any calls of the function except save_for.me: no response depends on the
\* data of a request other than its own.
THEOREM RequestIsolation ==
    ASSUME "save_for.me" \notin Calls
    PROVE  Spec => []Isolated
<1>1. Init => NothingKept /\ Memory /\ Outputs
  BY DEF Init, NothingKept, Memory, Outputs, Isolated
<1>2. Outputs => Isolated
  BY DEF Outputs
<1> QED
  BY InvInit, InvNext, NothingKeptNext, MemoryNext, OutputsNext, <1>1, <1>2, PTL DEF Spec
-------------------------------------------------------------------------------
(* One conversation. *)

\* A function that waits for a line has not been forgotten.
Waited ==
    fn.at = "asking" =>
        \/ \E i \in 1..Len(stdcmdout) : stdcmdout[i].name \notin Tells
        \/ mpc # "read"
        \/ stdcmdin # <<>>

\* It asks for what was saved once something was.
SavedFirst ==
    scratchmem = Unsaved => \A i \in 1..Len(stdcmdout) : stdcmdout[i].name # "give_back.me"

\* Both hold at the start.
LEMMA WaitedInit == Init => Waited /\ SavedFirst
  BY DEF Init, Waited, SavedFirst

\* Every step keeps them, if the function does not ask for what it never saved.
LEMMA WaitedNext ==
    ASSUME "blind" \notin Calls
    PROVE  IInv /\ Waited /\ SavedFirst /\ [Next]_vars => Waited' /\ SavedFirst'
<1> SUFFICES ASSUME IInv, Waited, SavedFirst, [Next]_vars PROVE Waited' /\ SavedFirst'
  OBVIOUS
<1> USE SessionAssumption DEF fnPipes, manager, platform
<1>0. /\ stdcmdout \in Seq(Command) /\ stdcmdin \in Seq(SUBSET Request)
      /\ fn \in Function
      /\ scratchmem \in (SUBSET Request) \cup {Unsaved}
  BY DEF IInv, TypeOK
\* A question is added: nothing else moves.
<1>a. ASSUME NEW c \in Command, stdcmdout' = Append(stdcmdout, c), scratchmem' = scratchmem,
             c.name \notin Tells \/ fn'.at # "asking",
             c.name = "give_back.me" => scratchmem # Unsaved
      PROVE  Waited' /\ SavedFirst'
  <2>1. /\ Len(stdcmdout) \in Nat /\ Len(stdcmdout') = Len(stdcmdout) + 1
        /\ \A i \in 1..Len(stdcmdout) : stdcmdout'[i] = stdcmdout[i]
        /\ stdcmdout'[Len(stdcmdout) + 1] = c
    BY <1>0, <1>a, AppendFacts
  <2>2. Waited'
    BY <1>a, <2>1 DEF Waited
  <2>3. \A i \in 1..Len(stdcmdout') : i \in 1..Len(stdcmdout) \/ i = Len(stdcmdout) + 1
    BY <2>1
  <2> QED
    BY <1>a, <2>1, <2>2, <2>3 DEF SavedFirst
\* A command is taken.
<1>b. ASSUME stdcmdout # <<>>, stdcmdout' = Tail(stdcmdout),
             scratchmem' = scratchmem \/ scratchmem' # Unsaved
      PROVE  SavedFirst'
  <2>1. /\ Len(stdcmdout) \in Nat /\ Len(stdcmdout') = Len(stdcmdout) - 1
        /\ \A i \in 1..Len(stdcmdout') : stdcmdout'[i] = stdcmdout[i + 1]
    BY <1>0, <1>b, TailFacts
  <2>2. \A i \in 1..Len(stdcmdout') : i + 1 \in 1..Len(stdcmdout)
    BY <2>1
  <2> QED
    BY <1>b, <2>1, <2>2 DEF SavedFirst
<1>1. CASE Submit
  BY <1>1 DEF Submit, Waited, SavedFirst
<1>2. CASE handle_stdin
  BY <1>2 DEF handle_stdin, Waited, SavedFirst
<1>3. CASE handle_stdout
  BY <1>3 DEF handle_stdout, Waited, SavedFirst
<1>4. CASE checkpoint_me
  <2>1. [name |-> "checkpoint.me", data |-> fn.mem] \in Command
    BY <1>0 DEF Function, Command, Asks
  <2> QED
    BY <1>4, <1>a, <2>1 DEF checkpoint_me, Runs, Ask, Tells
<1>5. CASE restore_me
  <2>1. [name |-> "restore.me", data |-> fn.mem] \in Command
    BY <1>0 DEF Function, Command, Asks
  <2> QED
    BY <1>5, <1>a, <2>1 DEF restore_me, Runs, Ask, Tells
<1>6. CASE FnAsk
  <2>1. PICK name \in Calls \cap Asks :
           /\ name = "give_back.me" => scratchmem # Unsaved
           /\ stdcmdout' = Append(stdcmdout, [name |-> name, data |-> fn.mem])
    BY <1>6 DEF FnAsk
  <2>2. [name |-> name, data |-> fn.mem] \in Command /\ name \notin Tells
    BY <1>0 DEF Function, Command, Asks, Tells
  <2> QED
    BY <1>6, <1>a, <2>1, <2>2 DEF FnAsk, Runs
<1>7. CASE FnTell
  <2>1. PICK name \in Calls \cap Tells :
           stdcmdout' = Append(stdcmdout, [name |-> name, data |-> {}])
    BY <1>7 DEF FnTell
  <2>2. [name |-> name, data |-> {}] \in Command /\ name # "give_back.me"
    BY DEF Command, Tells
  <2>3. fn'.at = "work" /\ scratchmem' = scratchmem
    BY <1>0, <1>7 DEF FnTell, Runs, Function
  <2> QED
    BY <1>a, <2>1, <2>2, <2>3
<1>8. CASE FnReply
  <2>1. fn'.at = fn.next /\ fn.next \in {"idle", "work", "return"}
    BY <1>0, <1>8 DEF FnReply, Function
  <2> QED
    BY <1>8, <2>1 DEF FnReply, Runs, Waited, SavedFirst
<1>9. CASE FnRead
  <2>1. PICK x, y : fn' = [fn EXCEPT !.at = "work", !.cur = x, !.buf = y,
                                     !.mem = @ \cup {x}, !.left = MaxCalls]
    BY <1>9, Zenon DEF FnRead
  <2>2. fn'.at = "work"
    BY <1>0, <2>1 DEF Function
  <2> QED
    BY <1>9, <2>2 DEF FnRead, Runs, Waited, SavedFirst
<1>10. CASE FnRespond
  BY <1>0, <1>10 DEF FnRespond, Runs, Waited, SavedFirst, Function
<1>11. CASE FnExit
  BY <1>0, <1>11 DEF FnExit, Runs, Waited, SavedFirst, Function
<1>12. CASE CmdCheckpoint
  BY <1>b, <1>12 DEF CmdCheckpoint, GetCommand, Waited
<1>13. CASE checkpoint_process
  BY <1>13 DEF checkpoint_process, Step, Waited, SavedFirst
<1>14. CASE CmdRestore
  BY <1>b, <1>14 DEF CmdRestore, GetCommand, Waited
<1>15. CASE restore_process
  BY <1>15 DEF restore_process, Step, Waited, SavedFirst
<1>16. CASE CmdDiff
  BY <1>b, <1>16 DEF CmdDiff, GetCommand, Waited
<1>17. CASE ptrace_detach
  BY <1>17 DEF ptrace_detach, Step, Waited, SavedFirst
<1>18. CASE DetachRevived
  BY <1>18 DEF DetachRevived, Step, Waited, SavedFirst
<1>19. CASE CmdAckOnly
  BY <1>b, <1>19 DEF CmdAckOnly, GetCommand, Waited
<1>20. CASE CmdSaveFor
  <2>1. scratchmem' \in SUBSET Request
    <3>1. stdcmdout # <<>> /\ scratchmem' = Head(stdcmdout).data
      BY <1>20 DEF CmdSaveFor, GetCommand
    <3>2. Head(stdcmdout) \in Command
      BY <1>0, <3>1, TailFacts
    <3> QED
      BY <3>1, <3>2 DEF Command
  <2>2. None \notin Request
    BY DEF None, Request
  <2> QED
    BY <1>b, <1>20, <2>1, <2>2 DEF CmdSaveFor, GetCommand, Waited, Unsaved
<1>21. CASE CmdGiveBack
  <2>1. scratchmem # Unsaved
    BY <1>0, <1>21, TailFacts DEF CmdGiveBack, SavedFirst
  <2>2. stdcmdin' = Append(stdcmdin, scratchmem) /\ scratchmem \in SUBSET Request
    BY <1>0, <1>21, <2>1 DEF CmdGiveBack
  <2>3. stdcmdin' # <<>>
    BY <1>0, <2>2, AppendFacts
  <2> QED
    BY <1>b, <1>21, <2>3 DEF CmdGiveBack, Waited
<1>22. CASE CmdNoReply
  <2>1. /\ stdcmdout # <<>> /\ stdcmdout' = Tail(stdcmdout)
        /\ stdcmdout[1].name \in Tells
        /\ UNCHANGED <<fn, mpc, stdcmdin, scratchmem>>
    BY <1>0, <1>22, TailFacts DEF CmdNoReply, GetCommand
  <2>2. /\ Len(stdcmdout) \in Nat /\ Len(stdcmdout') = Len(stdcmdout) - 1
        /\ \A i \in 1..Len(stdcmdout') : stdcmdout'[i] = stdcmdout[i + 1]
    BY <1>0, <2>1, TailFacts
  <2>3. ASSUME NEW i \in 1..Len(stdcmdout), stdcmdout[i].name \notin Tells
        PROVE  \E j \in 1..Len(stdcmdout') : stdcmdout'[j].name \notin Tells
    <3>1. i - 1 \in 1..Len(stdcmdout') /\ stdcmdout'[i - 1] = stdcmdout[i]
      BY <2>1, <2>2, <2>3
    <3> QED
      BY <2>3, <3>1
  <2> QED
    BY <1>b, <2>1, <2>3 DEF Waited
<1>23. CASE WriteACK
  <2>1. stdcmdin' # <<>>
    BY <1>0, <1>23, AppendFacts DEF WriteACK, ACK
  <2> QED
    BY <1>23, <2>1 DEF WriteACK, Waited, SavedFirst
<1>24. CASE CmdEOF
  BY <1>24 DEF CmdEOF, Step, Waited, SavedFirst
<1>25. CASE ControllerExit
  BY <1>25 DEF ControllerExit, Step, Waited, SavedFirst
<1>26. CASE UNCHANGED vars
  BY <1>26 DEF vars, Waited, SavedFirst
<1> QED
  BY <1>1, <1>2, <1>3, <1>4, <1>5, <1>6, <1>7, <1>8, <1>9, <1>10, <1>11, <1>12, <1>13,
     <1>14, <1>15, <1>16, <1>17, <1>18, <1>19, <1>20, <1>21, <1>22, <1>23, <1>24, <1>25, <1>26
  DEF Next, FnNext, ManagerNext

\* What waits in the pipes and in the manager's hands, counted.
LEMMA Counted == IInv /\ Waited => OneConversation
<1> SUFFICES ASSUME IInv, Waited, fn.at # "dead" PROVE OneConversation
  BY DEF OneConversation
<1> DEFINE asked == {i \in 1..Len(stdcmdout) : stdcmdout[i].name \notin Tells}
           busy  == IF mpc = "read" THEN 0 ELSE 1
<1>0. /\ stdcmdout \in Seq(Command) /\ stdcmdin \in Seq(SUBSET Request)
      /\ Len(stdcmdin) \in Nat /\ (Len(stdcmdin) = 0 <=> stdcmdin = <<>>)
  BY EmptyFacts DEF IInv, TypeOK
<1>1. mpc # "read" => mpc \in Busy
  BY DEF IInv, TypeOK, Located, Busy
<1>2. Cardinality({}) = 0 /\ \A x : Cardinality({x}) = 1
  BY FS_EmptySet, FS_Singleton
<1>3. CASE \E i \in 1..Len(stdcmdout) : stdcmdout[i].name \notin Tells
  <2>1. asked = {Len(stdcmdout)} /\ fn.at = "asking" /\ mpc = "read" /\ stdcmdin = <<>>
    BY <1>3 DEF IInv, Questions
  <2>2. Cardinality(asked) = 1
    BY <1>2, <2>1
  <2> QED
    BY <1>0, <2>1, <2>2 DEF OneConversation
<1>4. CASE ~ \E i \in 1..Len(stdcmdout) : stdcmdout[i].name \notin Tells
  <2>1. Cardinality(asked) = 0
    <3>1. asked = {}
      BY <1>4
    <3> QED
      BY <1>2, <3>1
  <2> HIDE DEF asked
  <2>2. CASE mpc # "read"
    <3>1. busy = 1 /\ Len(stdcmdin) = 0 /\ fn.at = "asking"
      BY <1>0, <1>1, <2>2 DEF IInv, Handling
    <3> QED
      BY <2>1, <3>1 DEF OneConversation, asked
  <2>3. CASE mpc = "read" /\ stdcmdin # <<>>
    <3>1. busy = 0 /\ Len(stdcmdin) = 1 /\ fn.at = "asking"
      BY <2>3 DEF IInv, Replies
    <3> QED
      BY <2>1, <3>1 DEF OneConversation, asked
  <2>4. CASE mpc = "read" /\ stdcmdin = <<>>
    <3>1. busy = 0 /\ Len(stdcmdin) = 0 /\ fn.at # "asking"
      BY <1>0, <1>4, <2>4 DEF Waited
    <3> QED
      BY <2>1, <3>1 DEF OneConversation, asked
  <2> QED
    BY <2>2, <2>3, <2>4
<1> QED
  BY <1>3, <1>4

\* A function that waits has exactly one answer coming and one that runs has
\* none, for any number of requests and any calls, as long as the function does
\* not ask for what it never saved.
THEOREM OneAnswerComing ==
    ASSUME "blind" \notin Calls
    PROVE  Spec => []OneConversation
BY InvInit, InvNext, WaitedInit, WaitedNext, Counted, PTL DEF Spec
-------------------------------------------------------------------------------
(* What the platform sees. *)

Serving   == fn.at = "work" \/ (fn.at = "asking" /\ fn.next = "work")
Dirty     == fn.at = "done" \/ (fn.at = "asking" /\ fn.next = "return")
Responses == answers \cup Range(stdout_pipe)
Answered  == {a.req : a \in Responses}
Pending   == Range(fn.buf) \cup Range(stdin_pipe) \cup Range(queue)

Before(S, T)  == \A x \in S, y \in T : x < y
Increasing(s) == \A i, j \in 1..Len(s) : i < j => s[i] < s[j]

\* Requests are answered in the order they were sent in: those that wait are the
\* latest, and nearer to the function the earlier.
InOrder ==
    /\ Increasing(fn.buf) /\ Increasing(stdin_pipe) /\ Increasing(queue)
    /\ Before(Range(fn.buf), Range(stdin_pipe) \cup Range(queue))
    /\ Before(Range(stdin_pipe), Range(queue))
    /\ Before(Answered, Pending)
    /\ Pending \cup Answered \subseteq 1..submitted
    /\ Serving => /\ fn.cur \in 1..submitted
                  /\ Before(Answered, {fn.cur}) /\ Before({fn.cur}, Pending)

\* The checkpoint is taken before the first read.
NothingBuffered ==
    /\ snapshot = Unset => fn.buf = <<>>
    /\ snapshot # Unset => snapshot.buf = <<>>

\* The manager counts the restores, and between two there is one response.
Tallied ==
    /\ IsFiniteSet(Responses)
    /\ fn.at # "dead" =>
         Cardinality(Responses) =
           num_revived + IF Dirty \/ mpc = "detach_revived" THEN 1 ELSE 0

\* One request at a time: every earlier one is answered, and the last one is on
\* its way for as long as it is not.
OneAtATime ==
    /\ fn.buf = <<>>
    /\ \A r \in 1..(submitted - 1) : \E a \in answers : a.req = r
    /\ fn.at # "dead" /\ submitted > 0 =>
         \/ submitted \in Answered
         \/ submitted \in Pending
         \/ Serving /\ submitted = fn.cur
SingleAnswers == \A a, b \in Responses : a.req = b.req => a = b

-------------------------------------------------------------------------------
(* Pipes as sets. *)

\* Who reads takes the head and leaves the rest.
LEMMA RangeOfTail ==
    ASSUME NEW S, NEW s \in Seq(S), s # <<>>
    PROVE  /\ Range(s) = {Head(s)} \cup Range(Tail(s))
           /\ Range(Tail(s)) \subseteq Range(s) /\ Head(s) \in Range(s)
<1>1. /\ Tail(s) \in Seq(S) /\ Head(s) = s[1] /\ Len(s) \in Nat /\ Len(s) > 0
      /\ Len(Tail(s)) = Len(s) - 1
      /\ \A i \in 1..Len(Tail(s)) : Tail(s)[i] = s[i + 1]
  BY TailFacts
<1>2. DOMAIN s = 1..Len(s) /\ DOMAIN Tail(s) = 1..Len(Tail(s))
  BY <1>1
<1>3. Head(s) \in Range(s)
  BY <1>1, <1>2 DEF Range
<1>4. ASSUME NEW x \in Range(Tail(s)) PROVE x \in Range(s)
  <2>1. PICK i \in 1..Len(Tail(s)) : x = Tail(s)[i]
    BY <1>2 DEF Range
  <2>2. i + 1 \in 1..Len(s) /\ x = s[i + 1]
    BY <1>1, <2>1
  <2> QED
    BY <1>2, <2>2 DEF Range
<1>5. ASSUME NEW x \in Range(s), x # Head(s) PROVE x \in Range(Tail(s))
  <2>1. PICK i \in 1..Len(s) : x = s[i]
    BY <1>2 DEF Range
  <2>2. i - 1 \in 1..Len(Tail(s)) /\ x = Tail(s)[i - 1]
    BY <1>1, <1>5, <2>1
  <2> QED
    BY <1>2, <2>2 DEF Range
<1> QED
  BY <1>3, <1>4, <1>5

\* Who writes adds one element.
LEMMA RangeOfAppend ==
    ASSUME NEW S, NEW s \in Seq(S), NEW e \in S
    PROVE  Range(Append(s, e)) = Range(s) \cup {e}
<1>1. /\ Append(s, e) \in Seq(S) /\ Len(s) \in Nat /\ Len(Append(s, e)) = Len(s) + 1
      /\ \A i \in 1..Len(s) : Append(s, e)[i] = s[i]
      /\ Append(s, e)[Len(s) + 1] = e
  BY AppendFacts
<1>2. DOMAIN s = 1..Len(s) /\ DOMAIN Append(s, e) = 1..(Len(s) + 1)
  BY <1>1
<1>3. 1..(Len(s) + 1) = 1..Len(s) \cup {Len(s) + 1}
  BY <1>1
<1> QED
  BY <1>1, <1>2, <1>3 DEF Range

\* An empty pipe holds nothing.
LEMMA RangeOfEmpty == Range(<<>>) = {}
  BY DEF Range

\* A pipe holds what it was declared for.
LEMMA RangeIn ==
    ASSUME NEW S, NEW s \in Seq(S)
    PROVE  Range(s) \subseteq S
  BY DEF Range

\* What is read from the front of an increasing pipe comes before the rest.
LEMMA IncreasingTail ==
    ASSUME NEW S, S \subseteq Int, NEW s \in Seq(S), s # <<>>, Increasing(s)
    PROVE  Increasing(Tail(s)) /\ Before({Head(s)}, Range(Tail(s)))
<1>1. /\ Tail(s) \in Seq(S) /\ Head(s) = s[1] /\ Len(s) \in Nat /\ Len(s) > 0
      /\ Len(Tail(s)) = Len(s) - 1
      /\ \A i \in 1..Len(Tail(s)) : Tail(s)[i] = s[i + 1]
  BY TailFacts
<1>2. Increasing(Tail(s))
  <2>1. SUFFICES ASSUME NEW i \in 1..Len(Tail(s)), NEW j \in 1..Len(Tail(s)), i < j
                 PROVE  Tail(s)[i] < Tail(s)[j]
    BY DEF Increasing
  <2>2. i + 1 \in 1..Len(s) /\ j + 1 \in 1..Len(s) /\ i + 1 < j + 1
    BY <1>1, <2>1
  <2>3. s[i + 1] < s[j + 1]
    BY <2>2 DEF Increasing
  <2> QED
    BY <1>1, <2>3
<1>3. ASSUME NEW x \in Range(Tail(s)) PROVE Head(s) < x
  <2>1. DOMAIN Tail(s) = 1..Len(Tail(s))
    BY <1>1
  <2>2. PICK i \in 1..Len(Tail(s)) : x = Tail(s)[i]
    BY <2>1 DEF Range
  <2>3. 1 \in 1..Len(s) /\ i + 1 \in 1..Len(s) /\ 1 < i + 1 /\ x = s[i + 1]
    BY <1>1, <2>2
  <2>4. s[1] < s[i + 1]
    BY <2>3 DEF Increasing
  <2> QED
    BY <1>1, <2>3, <2>4
<1> QED
  BY <1>2, <1>3 DEF Before

\* What is later than the whole pipe may be appended.
LEMMA IncreasingAppend ==
    ASSUME NEW S, S \subseteq Int, NEW s \in Seq(S), NEW e \in S, Increasing(s),
           Before(Range(s), {e})
    PROVE  Increasing(Append(s, e))
<1>1. /\ Append(s, e) \in Seq(S) /\ Len(s) \in Nat /\ Len(Append(s, e)) = Len(s) + 1
      /\ \A i \in 1..Len(s) : Append(s, e)[i] = s[i]
      /\ Append(s, e)[Len(s) + 1] = e
  BY AppendFacts
<1>2. DOMAIN s = 1..Len(s)
  BY <1>1
<1>3. SUFFICES ASSUME NEW i \in 1..(Len(s) + 1), NEW j \in 1..(Len(s) + 1), i < j
               PROVE  Append(s, e)[i] < Append(s, e)[j]
  BY <1>1 DEF Increasing
<1>4. i \in 1..Len(s)
  BY <1>1, <1>3
<1>5. CASE j = Len(s) + 1
  <2>1. s[i] \in Range(s)
    BY <1>2, <1>4 DEF Range
  <2> QED
    BY <1>1, <1>4, <1>5, <2>1 DEF Before
<1>6. CASE j \in 1..Len(s)
  BY <1>1, <1>3, <1>4, <1>6 DEF Increasing
<1> QED
  BY <1>1, <1>5, <1>6

\* A pipe holds finitely many elements.
LEMMA FiniteRange ==
    ASSUME NEW S, NEW s \in Seq(S)
    PROVE  IsFiniteSet(Range(s))
<1>1. DOMAIN s = 1..Len(s) /\ Len(s) \in Nat
  OBVIOUS
<1>2. IsFiniteSet(DOMAIN s)
  BY <1>1, FS_Interval
<1>3. s \in Surjection(DOMAIN s, Range(s))
  BY <1>1 DEF Surjection, Range
<1> QED
  BY <1>2, <1>3, FS_Surjection
-------------------------------------------------------------------------------
(* The steps that the platform cannot see. *)

\* The function stays in the same part of its life, and the platform's requests
\* and responses stay where they are.
Unseen ==
    /\ UNCHANGED <<stdin_pipe, stdout_pipe, queue, submitted, answers, num_revived, snapshot>>
    /\ fn'.buf = fn.buf /\ fn'.cur = fn.cur
    /\ fn'.at = "dead" <=> fn.at = "dead"
    /\ Serving' <=> Serving
    /\ Dirty' <=> Dirty
    /\ fn.at # "dead" => (mpc' = "detach_revived" <=> mpc = "detach_revived")

\* The function's end: by its own hand while it serves, or by the manager's after
\* the last response.
Ends ==
    /\ UNCHANGED <<stdin_pipe, stdout_pipe, queue, submitted, answers, num_revived, snapshot>>
    /\ fn' = [fn EXCEPT !.at = "dead"]
    /\ fn.at # "dead" /\ snapshot # Unset
    /\ \/ Serving
       \/ Dirty /\ num_revived = Keepalive - 1 /\ mpc # "detach_revived"

\* Every step is one of those that the platform can tell apart, the function's
\* end, or unseen.
LEMMA Sorted ==
    ASSUME IInv, [Next]_vars
    PROVE  \/ Submit \/ handle_stdin \/ handle_stdout \/ FnRead \/ FnRespond
           \/ checkpoint_process \/ restore_process \/ DetachRevived
           \/ Ends \/ Unseen
<1> USE SessionAssumption DEF fnPipes, manager, platform
<1>0. fn \in Function
  BY DEF IInv, TypeOK
<1>1. CASE checkpoint_me
  BY <1>0, <1>1 DEF checkpoint_me, Runs, Ask, Unseen, Serving, Dirty, Function
<1>2. CASE restore_me
  BY <1>0, <1>2 DEF restore_me, Runs, Ask, Unseen, Serving, Dirty, Function
<1>3. CASE FnAsk
  BY <1>0, <1>3 DEF FnAsk, Runs, Unseen, Serving, Dirty, Function
<1>4. CASE FnTell
  BY <1>0, <1>4 DEF FnTell, Runs, Unseen, Serving, Dirty, Function
<1>5. CASE FnReply
  <2>1. fn.next # "return" /\ fn.next \in {"idle", "work", "return"} /\ fn.at = "asking"
    BY <1>0, <1>5 DEF FnReply, Runs, IInv, Replies, Function
  <2>2. /\ fn'.at = fn.next /\ fn'.next = fn.next /\ fn'.buf = fn.buf /\ fn'.cur = fn.cur
    BY <1>0, <1>5 DEF FnReply, Function
  <2> QED
    BY <1>5, <2>1, <2>2 DEF FnReply, Runs, Unseen, Serving, Dirty
<1>6. CASE FnExit
  <2>1. snapshot # Unset
    BY <1>6 DEF FnExit, Runs, IInv, Located, Stored, Handling, Busy
  <2> QED
    BY <1>0, <1>6, <2>1 DEF FnExit, Runs, Ends, Serving, Dirty, Function
<1>7. CASE CmdRestore
  <2>1. stdcmdout # <<>> /\ Head(stdcmdout).name = "restore.me" /\ mpc = "read"
    BY <1>7 DEF CmdRestore, GetCommand
  <2>2. fn.at = "asking" /\ fn.next = "return" /\ snapshot # Unset
    BY <2>1, TakeQuestion DEF Tells, IInv, Stored
  <2>3. UNCHANGED <<stdin_pipe, stdout_pipe, queue, submitted, answers, num_revived, snapshot>>
    BY <1>7 DEF CmdRestore, GetCommand
  <2>4. CASE num_revived = Keepalive - 1
    <3>1. fn' = [fn EXCEPT !.at = "dead"]
      BY <1>7, <2>4 DEF CmdRestore
    <3> QED
      BY <2>1, <2>2, <2>3, <2>4, <3>1 DEF Ends, Dirty
  <2>5. CASE num_revived # Keepalive - 1
    <3>1. fn' = fn /\ mpc' = "restore"
      BY <1>7, <2>5 DEF CmdRestore
    <3> QED
      BY <2>1, <2>3, <3>1 DEF Unseen, Serving, Dirty
  <2> QED
    BY <2>4, <2>5
<1>8. CASE CmdCheckpoint \/ CmdDiff \/ CmdAckOnly \/ CmdSaveFor \/ CmdNoReply
  BY <1>8 DEF CmdCheckpoint, CmdDiff, CmdAckOnly, CmdSaveFor, CmdNoReply, GetCommand,
     Unseen, Serving, Dirty
<1>9. CASE CmdGiveBack \/ WriteACK
  BY <1>9 DEF CmdGiveBack, WriteACK, Unseen, Serving, Dirty
<1>10. CASE ptrace_detach \/ CmdEOF \/ ControllerExit
  BY <1>10 DEF ptrace_detach, CmdEOF, ControllerExit, Step, Unseen, Serving, Dirty
<1>11. CASE UNCHANGED vars
  BY <1>11 DEF vars, Unseen, Serving, Dirty
<1> QED
  BY <1>1, <1>2, <1>3, <1>4, <1>5, <1>6, <1>7, <1>8, <1>9, <1>10, <1>11
  DEF Next, FnNext, ManagerNext

\* What each of the seen steps does to the requests and the responses.
LEMMA Forwarded ==
    ASSUME IInv, handle_stdout
    PROVE  Responses' = Responses /\ IsFiniteSet(Range(stdout_pipe'))
<1>1. stdout_pipe \in Seq(Response) /\ stdout_pipe # <<>>
  BY DEF handle_stdout, IInv, TypeOK
<1>2. Range(stdout_pipe) = {Head(stdout_pipe)} \cup Range(stdout_pipe')
  BY <1>1, RangeOfTail DEF handle_stdout
<1> QED
  BY <1>1, <1>2, TailFacts, FiniteRange DEF handle_stdout, Responses

\* A response is added, of the request that is served.
LEMMA Responded ==
    ASSUME IInv, FnRespond
    PROVE  /\ Responses' = Responses \cup {[req |-> fn.cur, data |-> fn.mem]}
           /\ Answered' = Answered \cup {fn.cur}
           /\ fn'.at = "done" /\ fn'.buf = fn.buf /\ fn.at = "work"
           /\ mpc # "detach_revived"
           /\ UNCHANGED <<stdin_pipe, platform, num_revived, mpc, snapshot>>
<1> DEFINE e == [req |-> fn.cur, data |-> fn.mem]
<1>1. e \in Response /\ e.req = fn.cur
  BY DEF FnRespond, Runs, IInv, TypeOK, Located, Function, Response
<1>2. stdout_pipe \in Seq(Response) /\ stdout_pipe' = Append(stdout_pipe, e)
  BY DEF FnRespond, IInv, TypeOK
<1>3. /\ fn'.at = "done" /\ fn'.buf = fn.buf /\ fn.at = "work"
      /\ UNCHANGED <<stdin_pipe, platform, num_revived, mpc, snapshot>>
  BY DEF FnRespond, Runs, IInv, TypeOK, Function, manager, platform
<1>4. mpc # "detach_revived"
  BY <1>3 DEF IInv, Handling, Busy
<1> HIDE DEF e
<1>5. Responses' = Responses \cup {e}
  BY <1>1, <1>2, <1>3, RangeOfAppend DEF Responses, platform
<1>6. Answered' = Answered \cup {fn.cur}
  BY <1>1, <1>5 DEF Answered
<1> QED
  BY <1>3, <1>4, <1>5, <1>6 DEF e

\* The function takes the earliest request that waits.
LEMMA Received ==
    ASSUME IInv, InOrder, FnRead
    PROVE  /\ fn.at = "idle" /\ fn'.at = "work" /\ fn'.cur \in Pending /\ fn'.cur \in Request
           /\ Pending = Pending' \cup {fn'.cur} /\ Before({fn'.cur}, Pending')
           /\ UNCHANGED <<stdout_pipe, platform, manager>>
           /\ Increasing(fn'.buf) /\ Increasing(stdin_pipe')
           /\ Before(Range(fn'.buf), Range(stdin_pipe') \cup Range(queue))
           /\ Before(Range(stdin_pipe'), Range(queue))
           /\ fn.buf = <<>> => stdin_pipe # <<>> /\ fn'.buf = Tail(stdin_pipe)
<1>1. fn.at = "idle" /\ UNCHANGED <<stdout_pipe, platform, manager>>
  BY DEF FnRead, Runs, IInv, Located
<1> DEFINE input == IF fn.buf # <<>> THEN fn.buf ELSE stdin_pipe
<1>2. /\ fn.buf \in Seq(Request) /\ stdin_pipe \in Seq(Request) /\ queue \in Seq(Request)
      /\ fn \in Function /\ Request \subseteq Int
  BY DEF IInv, TypeOK, Function, Request
<1>3. /\ input # <<>> /\ input \in Seq(Request) /\ Increasing(input)
      /\ fn' = [fn EXCEPT !.at = "work", !.cur = Head(input), !.buf = Tail(input),
                          !.mem = @ \cup {Head(input)}, !.left = MaxCalls]
      /\ stdin_pipe' = IF fn.buf # <<>> THEN stdin_pipe ELSE <<>>
  BY <1>2 DEF FnRead, InOrder
<1>4. fn'.at = "work" /\ fn'.cur = Head(input) /\ fn'.buf = Tail(input)
  BY <1>2, <1>3 DEF Function
<1> HIDE DEF input
<1>5. /\ Range(input) = {Head(input)} \cup Range(Tail(input))
      /\ Increasing(Tail(input)) /\ Before({Head(input)}, Range(Tail(input)))
      /\ Head(input) \in Request
  BY <1>2, <1>3, RangeOfTail, IncreasingTail, TailFacts
<1>6. queue' = queue
  BY <1>1 DEF platform
<1>7. CASE fn.buf # <<>>
  <2>1. input = fn.buf /\ stdin_pipe' = stdin_pipe
    BY <1>3, <1>7 DEF input
  <2> QED
    BY <1>1, <1>4, <1>5, <1>6, <1>7, <2>1 DEF InOrder, Before, Pending
<1>8. CASE fn.buf = <<>>
  <2>1. input = stdin_pipe /\ stdin_pipe' = <<>> /\ Range(stdin_pipe') = {}
    BY <1>3, <1>8, RangeOfEmpty DEF input
  <2>2. Increasing(stdin_pipe')
    BY <2>1 DEF Increasing
  <2> QED
    BY <1>1, <1>3, <1>4, <1>5, <1>6, <2>1, <2>2 DEF InOrder, Before, Pending
<1> QED
  BY <1>7, <1>8

\* The function is put back to where it asked for the checkpoint.
LEMMA Restored ==
    ASSUME IInv, restore_process
    PROVE  /\ UNCHANGED <<stdin_pipe, stdout_pipe, platform, num_revived, snapshot>>
           /\ fn' = snapshot /\ snapshot # Unset /\ Dirty /\ fn.at = "asking"
           /\ fn'.at = "asking" /\ fn'.next = "idle" /\ mpc' = "detach_revived"
           /\ mpc = "restore"
  BY DEF restore_process, Step, fnPipes, IInv, Handling, Stored, Busy, Dirty
-------------------------------------------------------------------------------
(* Requests are served in order, and counted. *)

\* Nothing was sent.
LEMMA OrderInit == Init => InOrder /\ NothingBuffered /\ Tallied /\ SingleAnswers
<1> SUFFICES ASSUME Init PROVE InOrder /\ NothingBuffered /\ Tallied /\ SingleAnswers
  OBVIOUS
<1>1. Responses = {} /\ Answered = {} /\ Pending = {} /\ ~Serving /\ ~Dirty
  BY RangeOfEmpty DEF Init, Responses, Answered, Pending, Serving, Dirty
<1>2. InOrder /\ NothingBuffered
  BY <1>1, RangeOfEmpty DEF Init, InOrder, NothingBuffered, Increasing, Before
<1>3. Tallied /\ SingleAnswers
  BY <1>1, FS_EmptySet DEF Init, Tallied, SingleAnswers
<1> QED
  BY <1>2, <1>3

\* Nothing moves that the order is about.
LEMMA OrderKept ==
    ASSUME InOrder, UNCHANGED <<stdin_pipe, queue, submitted>>, Responses' = Responses,
           fn'.buf = fn.buf, Serving' => Serving /\ fn'.cur = fn.cur
    PROVE  InOrder'
<1>1. Answered' = Answered /\ Pending' = Pending
  BY DEF Answered, Pending
<1> QED
  BY <1>1 DEF InOrder, Before, Increasing

\* Every step keeps the order: a restore may drop requests, it swaps none.
LEMMA OrderNext == IInv /\ NothingBuffered /\ InOrder /\ [Next]_vars => InOrder'
<1> SUFFICES ASSUME IInv, NothingBuffered, InOrder, [Next]_vars PROVE InOrder'
  OBVIOUS
<1> USE DEF fnPipes, platform
<1>0. /\ fn \in Function /\ fn.buf \in Seq(Request) /\ stdin_pipe \in Seq(Request)
      /\ queue \in Seq(Request) /\ Request \subseteq Int /\ submitted \in Nat
  BY SessionAssumption DEF IInv, TypeOK, Function, Request
<1>00. Range(fn.buf) \subseteq Int /\ Range(stdin_pipe) \subseteq Int /\ Range(queue) \subseteq Int
  BY <1>0, RangeIn
<1>1. CASE Submit
  <2>1. /\ submitted' = submitted + 1 /\ submitted' \in Request
        /\ queue' = Append(queue, submitted')
        /\ UNCHANGED <<fn, stdin_pipe, stdout_pipe, answers>>
    BY <1>0, <1>1, SessionAssumption DEF Submit, Request
  <2>2. Range(queue') = Range(queue) \cup {submitted'}
    BY <1>0, <2>1, RangeOfAppend
  <2>3. \A x \in Pending \cup Answered : x < submitted' /\ x \in 1..submitted'
    BY <1>0, <2>1 DEF InOrder
  <2>4. Before(Range(queue), {submitted'})
    BY <2>3 DEF Before, Pending
  <2>5. Increasing(queue')
    BY <1>0, <2>1, <2>4, IncreasingAppend DEF InOrder
  <2>6. Pending' = Pending \cup {submitted'} /\ Answered' = Answered
    BY <2>1, <2>2 DEF Pending, Answered, Responses
  <2>7. /\ Before(Range(fn'.buf), Range(stdin_pipe') \cup Range(queue'))
        /\ Before(Range(stdin_pipe'), Range(queue'))
    BY <2>1, <2>2, <2>3 DEF InOrder, Before, Pending
  <2>8. Before(Answered', Pending') /\ Pending' \cup Answered' \subseteq 1..submitted'
    BY <1>0, <2>1, <2>3, <2>6 DEF InOrder, Before
  <2>9. Serving' => /\ fn'.cur \in 1..submitted'
                    /\ Before(Answered', {fn'.cur}) /\ Before({fn'.cur}, Pending')
    BY <1>0, <2>1, <2>6 DEF InOrder, Before, Serving
  <2> QED
    BY <2>1, <2>5, <2>7, <2>8, <2>9 DEF InOrder, Increasing
<1>2. CASE handle_stdin
  <2>1. queue # <<>> /\ queue' = Tail(queue) /\ UNCHANGED <<fn, stdout_pipe, submitted, answers>>
    BY <1>2 DEF handle_stdin
  <2>2. /\ Range(queue) = {Head(queue)} \cup Range(queue')
        /\ Increasing(queue') /\ Before({Head(queue)}, Range(queue')) /\ Head(queue) \in Request
    BY <1>0, <2>1, RangeOfTail, IncreasingTail, TailFacts DEF InOrder
  <2>3. Answered' = Answered /\ (Serving' <=> Serving)
    BY <2>1 DEF Answered, Responses, Serving
  <2>4. CASE stdin_pipe' = stdin_pipe
    <3>1. Pending' \subseteq Pending
      BY <2>1, <2>2, <2>4 DEF Pending
    <3> QED
      BY <2>1, <2>2, <2>3, <2>4, <3>1 DEF InOrder, Before, Increasing
  <2>5. CASE stdin_pipe' = Append(stdin_pipe, Head(queue))
    <3>1. Range(stdin_pipe') = Range(stdin_pipe) \cup {Head(queue)}
      BY <1>0, <2>2, <2>5, RangeOfAppend
    <3>2. Before(Range(stdin_pipe), {Head(queue)})
      BY <2>2 DEF InOrder, Before
    <3>3. Increasing(stdin_pipe')
      BY <1>0, <2>2, <2>5, <3>2, IncreasingAppend DEF InOrder
    <3>4. Pending' = Pending
      BY <2>1, <2>2, <3>1 DEF Pending
    <3>5. /\ Before(Range(fn'.buf), Range(stdin_pipe') \cup Range(queue'))
          /\ Before(Range(stdin_pipe'), Range(queue'))
      BY <2>1, <2>2, <3>1 DEF InOrder, Before
    <3> QED
      BY <2>1, <2>2, <2>3, <3>3, <3>4, <3>5 DEF InOrder, Before, Increasing
  <2> QED
    BY <1>2, <2>4, <2>5 DEF handle_stdin
<1>3. CASE handle_stdout
  <2>1. Responses' = Responses
    BY <1>3, Forwarded
  <2> QED
    BY <1>3, <2>1, OrderKept DEF handle_stdout, Serving
<1>4. CASE FnRead
  <2>1. /\ fn'.at = "work" /\ fn'.cur \in Pending
        /\ Pending' \subseteq Pending /\ Before({fn'.cur}, Pending')
        /\ UNCHANGED <<stdout_pipe, platform>>
        /\ Increasing(fn'.buf) /\ Increasing(stdin_pipe')
        /\ Before(Range(fn'.buf), Range(stdin_pipe') \cup Range(queue))
        /\ Before(Range(stdin_pipe'), Range(queue))
    BY <1>4, Received
  <2>2. Answered' = Answered
    BY <2>1 DEF Answered, Responses
  <2> QED
    BY <2>1, <2>2 DEF InOrder, Before, Increasing
<1>5. CASE FnRespond
  <2>1. /\ Answered' = Answered \cup {fn.cur}
        /\ fn'.at = "done" /\ fn'.buf = fn.buf /\ fn.at = "work"
        /\ UNCHANGED <<stdin_pipe, platform>>
    BY <1>5, Responded
  <2>2. Serving /\ ~Serving' /\ Pending' = Pending
    BY <2>1 DEF Serving, Pending
  <2> QED
    BY <2>1, <2>2 DEF InOrder, Before, Increasing
<1>6. CASE restore_process
  <2>1. /\ UNCHANGED <<stdin_pipe, stdout_pipe, platform>> /\ fn' = snapshot
        /\ fn'.at = "asking" /\ fn'.next = "idle" /\ snapshot # Unset
    BY <1>6, Restored
  <2>2. fn'.buf = <<>> /\ Range(fn'.buf) = {}
    BY <2>1, RangeOfEmpty DEF NothingBuffered
  <2>3. Pending' \subseteq Pending /\ Answered' = Answered /\ ~Serving'
    BY <2>1, <2>2 DEF Pending, Answered, Responses, Serving
  <2>4. Increasing(fn'.buf)
    BY <2>2 DEF Increasing
  <2> QED
    BY <2>1, <2>2, <2>3, <2>4 DEF InOrder, Before, Increasing
<1>7. CASE checkpoint_process \/ DetachRevived
  BY <1>7, OrderKept DEF checkpoint_process, DetachRevived, Step, Responses, Serving
<1>8. CASE Ends
  <2>1. fn'.at = "dead" /\ fn'.buf = fn.buf
    BY <1>0, <1>8 DEF Ends, Function
  <2> QED
    BY <1>8, <2>1, OrderKept DEF Ends, Responses, Serving
<1>9. CASE Unseen
  BY <1>9, OrderKept DEF Unseen, Responses
<1> QED
  BY <1>1, <1>2, <1>3, <1>4, <1>5, <1>6, <1>7, <1>8, <1>9, Sorted

\* A restore empties the function's stdio buffer.
LEMMA BufferedNext == IInv /\ NothingBuffered /\ [Next]_vars => NothingBuffered'
<1> SUFFICES ASSUME IInv, NothingBuffered, [Next]_vars PROVE NothingBuffered'
  OBVIOUS
<1>0. fn \in Function
  BY DEF IInv, TypeOK
<1>1. CASE Submit \/ handle_stdin \/ handle_stdout
  BY <1>1 DEF Submit, handle_stdin, handle_stdout, manager, NothingBuffered
<1>2. CASE FnRead
  <2>1. snapshot # Unset /\ snapshot' = snapshot
    BY <1>2 DEF FnRead, Runs, manager, IInv, Located, Stored, Handling, Busy
  <2> QED
    BY <2>1 DEF NothingBuffered
<1>3. CASE FnRespond
  BY <1>3, Responded DEF NothingBuffered
<1>4. CASE restore_process
  BY <1>4, Restored DEF NothingBuffered
<1>5. CASE checkpoint_process
  <2>1. snapshot = Unset /\ snapshot' = fn /\ fn' = fn
    BY <1>5 DEF checkpoint_process, Step, IInv, Stored
  <2> QED
    BY <2>1 DEF NothingBuffered
<1>6. CASE DetachRevived
  BY <1>6 DEF DetachRevived, NothingBuffered
<1>7. CASE Ends
  <2>1. fn'.buf = fn.buf
    BY <1>0, <1>7 DEF Ends, Function
  <2> QED
    BY <1>7, <2>1 DEF Ends, NothingBuffered
<1>8. CASE Unseen
  BY <1>8 DEF Unseen, NothingBuffered
<1> QED
  BY <1>1, <1>2, <1>3, <1>4, <1>5, <1>6, <1>7, <1>8, Sorted

\* No request has two responses.
LEMMA SingleNext == IInv /\ InOrder /\ SingleAnswers /\ [Next]_vars => SingleAnswers'
<1> SUFFICES ASSUME IInv, InOrder, SingleAnswers, [Next]_vars PROVE SingleAnswers'
  OBVIOUS
<1> USE DEF fnPipes, platform
<1>1. CASE Responses' = Responses
  BY <1>1 DEF SingleAnswers
<1>2. CASE FnRespond
  <2> DEFINE e == [req |-> fn.cur, data |-> fn.mem]
  <2>1. Responses' = Responses \cup {e} /\ e.req = fn.cur /\ fn.at = "work"
    BY <1>2, Responded
  <2>2. \A a \in Responses : a.req # fn.cur
    <3>1. submitted \in Int
      BY SessionAssumption DEF IInv, TypeOK
    <3>2. Before(Answered, {fn.cur}) /\ fn.cur \in Int
      BY <2>1, <3>1 DEF InOrder, Serving
    <3> QED
      BY <3>1, <3>2 DEF Before, Answered, InOrder
  <2> HIDE DEF e
  <2> QED
    BY <2>1, <2>2 DEF SingleAnswers
<1>3. CASE Submit \/ handle_stdin \/ FnRead \/ checkpoint_process \/ restore_process \/ DetachRevived
  BY <1>1, <1>3, Received, Restored
  DEF Submit, handle_stdin, FnRead, Runs, checkpoint_process, DetachRevived, Step, Responses
<1>4. CASE Ends \/ Unseen
  BY <1>1, <1>4 DEF Ends, Unseen, Responses
<1> QED
  BY <1>1, <1>2, <1>3, <1>4, Forwarded, Sorted

\* Every response is counted by the restore that follows it.
LEMMA TalliedNext == IInv /\ InOrder /\ Tallied /\ [Next]_vars => Tallied'
<1> SUFFICES ASSUME IInv, InOrder, Tallied, [Next]_vars PROVE Tallied'
  OBVIOUS
<1> USE DEF fnPipes, platform
<1>0. fn \in Function /\ num_revived \in Nat /\ submitted \in Int
  BY SessionAssumption DEF IInv, TypeOK
<1>1. CASE Submit \/ handle_stdin \/ handle_stdout
  <2>1. Responses' = Responses /\ UNCHANGED <<fn, num_revived>>
    BY <1>1, Forwarded DEF Submit, handle_stdin, handle_stdout, manager, Responses
  <2>2. fn.at # "dead" => mpc' = mpc
    BY <1>1 DEF Submit, handle_stdin, handle_stdout, manager
  <2> QED
    BY <2>1, <2>2 DEF Tallied, Dirty
<1>2. CASE FnRead
  <2>1. /\ Responses' = Responses /\ UNCHANGED <<num_revived, mpc>>
        /\ fn.at = "idle" /\ fn'.at = "work"
    BY <1>2, Received DEF Responses, manager
  <2> QED
    BY <2>1 DEF Tallied, Dirty
<1>3. CASE FnRespond
  <2> DEFINE e == [req |-> fn.cur, data |-> fn.mem]
  <2>1. /\ Responses' = Responses \cup {e} /\ e.req = fn.cur /\ fn.at = "work"
        /\ fn'.at = "done" /\ UNCHANGED <<num_revived, mpc>> /\ mpc # "detach_revived"
    BY <1>3, Responded
  <2>2. e \notin Responses
    BY <1>0, <2>1 DEF InOrder, Serving, Before, Answered
  <2> HIDE DEF e
  <2>3. IsFiniteSet(Responses') /\ Cardinality(Responses') = Cardinality(Responses) + 1
    BY <2>1, <2>2, FS_AddElement DEF Tallied
  <2> QED
    BY <1>0, <2>1, <2>3 DEF Tallied, Dirty
<1>4. CASE restore_process
  <2>1. /\ UNCHANGED <<stdout_pipe, answers, num_revived>> /\ Dirty /\ fn.at = "asking"
        /\ fn'.at = "asking" /\ fn'.next = "idle" /\ mpc' = "detach_revived"
    BY <1>4, Restored
  <2> QED
    BY <2>1 DEF Tallied, Dirty, Responses
<1>5. CASE checkpoint_process
  BY <1>5 DEF checkpoint_process, Step, Tallied, Dirty, Responses
<1>6. CASE DetachRevived
  <2>1. /\ UNCHANGED <<stdout_pipe, answers, fn>> /\ num_revived' = num_revived + 1
        /\ mpc = "detach_revived" /\ mpc' = "reply" /\ fn.at = "asking" /\ fn.next = "idle"
    BY <1>6 DEF DetachRevived, Step, IInv, Handling, Busy
  <2> QED
    BY <1>0, <2>1 DEF Tallied, Dirty, Responses
<1>7. CASE Ends
  <2>1. fn'.at = "dead"
    BY <1>0, <1>7 DEF Ends, Function
  <2> QED
    BY <1>7, <2>1 DEF Ends, Tallied, Responses
<1>8. CASE Unseen
  BY <1>8 DEF Unseen, Tallied, Responses
<1> QED
  BY <1>1, <1>2, <1>3, <1>4, <1>5, <1>6, <1>7, <1>8, Sorted
-------------------------------------------------------------------------------
(* The refinement. *)

\* What the steps of the session are to the container.
LEMMA SameContainer ==
    ASSUME IInv, IInv', Responses' = Responses, UNCHANGED snapshot,
           fn'.cur = fn.cur \/ ~Serving,
           fn'.at = "dead" <=> fn.at = "dead", Serving' <=> Serving, Dirty' <=> Dirty
    PROVE  UNCHANGED Promise!vars
<1>1. fn.at # "return" /\ fn'.at # "return"
  BY DEF IInv, Located
<1>2. Phase' = Phase
  BY <1>1 DEF Phase, Serving, Dirty
<1>3. Phase = "serving" => Serving
  BY <1>1 DEF Phase, Serving
<1> QED
  BY <1>2, <1>3 DEF Promise!vars, Responses

\* Container counts with the same FiniteSets.
LEMMA SameCount == \A S : Promise!Cardinality(S) = Cardinality(S)
  BY DEF Promise!Cardinality, Cardinality

\* The container starts as the session does.
LEMMA ContainerInit == Init => Promise!Init
<1> SUFFICES ASSUME Init PROVE Promise!Init
  OBVIOUS
<1>1. Phase = "starting" /\ answers \cup Range(stdout_pipe) = {}
  BY RangeOfEmpty DEF Init, Phase
<1> QED
  BY <1>1 DEF Promise!Init, Promise!None, None

\* Every step of the session is one of the container or changes nothing in it.
LEMMA ContainerNext ==
    IInv /\ IInv' /\ Memory /\ InOrder /\ NothingBuffered /\ Tallied /\ [Next]_vars
        => [Promise!Next]_Promise!vars
<1> SUFFICES ASSUME IInv, IInv', Memory, InOrder, NothingBuffered, Tallied, [Next]_vars
             PROVE  [Promise!Next]_Promise!vars
  OBVIOUS
<1> USE DEF fnPipes, platform
<1>0. fn \in Function /\ num_revived \in Nat /\ submitted \in Int /\ Keepalive \in Nat
  BY SessionAssumption DEF IInv, TypeOK
<1>1. CASE Submit \/ handle_stdin \/ handle_stdout
  <2>1. Responses' = Responses /\ UNCHANGED <<fn, snapshot>>
    BY <1>1, Forwarded DEF Submit, handle_stdin, handle_stdout, manager, Responses
  <2> QED
    BY <2>1, SameContainer DEF Serving, Dirty
<1>2. CASE FnRead
  <2>1. /\ Responses' = Responses /\ snapshot' = snapshot
        /\ fn.at = "idle" /\ fn'.at = "work" /\ fn'.cur \in Pending /\ fn'.cur \in Request
    BY <1>2, Received DEF Responses, manager
  <2>2. snapshot # Unset
    BY <2>1 DEF IInv, Located, Stored, Handling, Busy
  <2>3. Phase = "clean" /\ Phase' = "serving"
    BY <2>1, <2>2 DEF Phase
  <2>4. \A a \in Responses : a.req # fn'.cur
    <3>1. Before(Answered, {fn'.cur}) /\ Answered \cup {fn'.cur} \subseteq Int
      BY <1>0, <2>1 DEF InOrder, Before
    <3> QED
      BY <3>1 DEF Before, Answered
  <2>5. Promise!Serve(fn'.cur)
    BY <2>1, <2>3, <2>4 DEF Promise!Serve, Responses
  <2> QED
    BY <2>1, <2>5 DEF Promise!Next
<1>3. CASE FnRespond
  <2>1. /\ Responses' = Responses \cup {[req |-> fn.cur, data |-> fn.mem]}
        /\ fn.at = "work" /\ fn'.at = "done" /\ snapshot' = snapshot
    BY <1>3, Responded
  <2>2. snapshot # Unset /\ fn.mem = {fn.cur}
    BY <2>1 DEF IInv, Located, Stored, Handling, Busy, Memory
  <2>3. Phase = "serving" /\ Phase' = "dirty"
    BY <2>1, <2>2 DEF Phase
  <2>4. Promise!Respond
    BY <2>1, <2>2, <2>3 DEF Promise!Respond, Promise!None, None, Responses
  <2> QED
    BY <2>4 DEF Promise!Next
<1>4. CASE restore_process
  <2>1. /\ UNCHANGED <<stdout_pipe, answers, snapshot>> /\ snapshot # Unset
        /\ Dirty /\ fn.at = "asking" /\ mpc = "restore"
        /\ fn'.at = "asking" /\ fn'.next = "idle"
    BY <1>4, Restored
  <2>2. Phase = "dirty" /\ Phase' = "clean"
    BY <2>1 DEF Phase, Dirty
  <2>3. Cardinality(Responses) = num_revived + 1
    BY <2>1 DEF Tallied
  <2>4. Keepalive > 0 => num_revived < Keepalive - 1
    BY <2>1 DEF IInv, Located
  <2>5. Cardinality(Responses) # Keepalive
    BY <1>0, <2>3, <2>4
  <2>6. Promise!Recycle
    BY <2>1, <2>2, <2>5, SameCount DEF Promise!Recycle, Responses
  <2> QED
    BY <2>6 DEF Promise!Next
<1>5. CASE checkpoint_process
  <2>1. /\ UNCHANGED <<stdout_pipe, answers, fn>> /\ snapshot = Unset /\ snapshot' # Unset
        /\ fn.at = "asking" /\ fn.next = "idle"
    <3>1. mpc = "checkpoint" /\ UNCHANGED <<stdout_pipe, answers, fn>> /\ snapshot' = fn
      BY <1>5 DEF checkpoint_process, Step
    <3>2. snapshot = Unset /\ fn.at = "asking" /\ fn.next = "idle"
      BY <3>1 DEF IInv, Handling, Stored, Busy
    <3>3. fn # Unset
      BY <1>0, <3>2 DEF Unset
    <3> QED
      BY <3>1, <3>2, <3>3
  <2>2. Phase = "starting" /\ Phase' = "clean"
    BY <2>1 DEF Phase
  <2>3. Promise!Start
    BY <2>1, <2>2 DEF Promise!Start
  <2> QED
    BY <2>3 DEF Promise!Next
<1>6. CASE DetachRevived
  <2>1. Responses' = Responses /\ UNCHANGED <<fn, snapshot>>
    BY <1>6 DEF DetachRevived, Step, Responses
  <2> QED
    BY <2>1, SameContainer DEF Serving, Dirty
<1>7. CASE Ends
  <2>1. fn.at # "dead" /\ fn'.at = "dead" /\ UNCHANGED <<snapshot, answers, stdout_pipe>>
    BY <1>0, <1>7 DEF Ends, Function
  <2>2. Phase' = "retired"
    BY <2>1 DEF Phase
  <2>3. snapshot # Unset
    BY <1>7 DEF Ends
  <2>4. CASE Serving
    <3>1. Phase = "serving"
      BY <2>1, <2>3, <2>4 DEF Phase, Serving
    <3>2. Promise!Exit
      BY <2>1, <2>2, <3>1 DEF Promise!Exit, Promise!None, None
    <3> QED
      BY <3>2 DEF Promise!Next
  <2>5. CASE Dirty /\ num_revived = Keepalive - 1 /\ mpc # "detach_revived"
    <3>1. Phase = "dirty"
      BY <2>1, <2>3, <2>5 DEF Phase, Dirty
    <3>2. Cardinality(Responses) = Keepalive
      BY <1>0, <2>1, <2>5 DEF Tallied
    <3>3. Promise!Retire
      BY <2>1, <2>2, <3>1, <3>2, SameCount DEF Promise!Retire, Responses
    <3> QED
      BY <3>3 DEF Promise!Next
  <2> QED
    BY <1>7, <2>4, <2>5 DEF Ends
<1>8. CASE Unseen
  BY <1>8, SameContainer DEF Unseen, Responses
<1> QED
  BY <1>1, <1>2, <1>3, <1>4, <1>5, <1>6, <1>7, <1>8, Sorted

\* The manager, its threads and the function implement the container: requests
\* are served once and one at a time, each response is computed from its own
\* request, the function is recycled between two of them and retires after exactly
\* Keepalive, for any number of requests, pipelined or not, and any calls of the
\* function but save_for.me.
THEOREM SessionImplementsContainer ==
    ASSUME "save_for.me" \notin Calls
    PROVE  Spec => ImplementsContainer
<1>1. Init => NothingKept /\ Memory
  BY DEF Init, NothingKept, Memory
<1>2. Spec => [](IInv /\ NothingKept /\ Memory /\ InOrder /\ NothingBuffered /\ Tallied)
  BY InvInit, InvNext, NothingKeptNext, MemoryNext, <1>1, OrderInit, OrderNext,
     BufferedNext, TalliedNext, PTL DEF Spec
<1> QED
  BY <1>2, ContainerInit, ContainerNext, PTL DEF Spec, ImplementsContainer, Promise!Spec
-------------------------------------------------------------------------------
(* A platform that sends one request at a time. *)

\* Every answer is to another request: there are not more than were sent, and if
\* there are as many, all are answered.
LEMMA AllAnswered ==
    ASSUME IInv, InOrder, SingleAnswers
    PROVE  /\ IsFiniteSet(answers) /\ Cardinality(answers) \in Nat
           /\ Cardinality(answers) >= submitted =>
                \A r \in 1..submitted : \E a \in answers : a.req = r
<1> DEFINE f == [a \in answers |-> a.req]
<1>1. submitted \in Nat
  BY SessionAssumption DEF IInv, TypeOK
<1>2. IsFiniteSet(1..submitted) /\ Cardinality(1..submitted) = submitted
  BY <1>1, FS_Interval
<1>3. \A a \in answers : a.req \in 1..submitted
  BY DEF InOrder, Answered, Responses
<1>4. f \in Injection(answers, 1..submitted)
  BY <1>3 DEF SingleAnswers, Responses, Injection, IsInjective
<1>5. /\ IsFiniteSet(answers) /\ Cardinality(answers) <= submitted
      /\ Cardinality(answers) = submitted => f \in Surjection(answers, 1..submitted)
  BY <1>2, <1>4, FS_Injection
<1>6. Cardinality(answers) \in Nat
  BY <1>5, FS_CardinalityType
<1>7. ASSUME f \in Surjection(answers, 1..submitted), NEW r \in 1..submitted
      PROVE  \E a \in answers : a.req = r
  BY <1>7 DEF Surjection
<1> QED
  BY <1>1, <1>5, <1>6, <1>7

\* Nothing was sent.
LEMMA OneInit == Init => OneAtATime
  BY DEF Init, OneAtATime

\* What waits is the last request, and nothing else.
LEMMA OnlyTheLast ==
    ASSUME IInv, InOrder, OneAtATime, NEW x \in Pending
    PROVE  x = submitted
<1>1. submitted \in Nat
  BY SessionAssumption DEF IInv, TypeOK
<1>2. x \in 1..submitted
  BY DEF InOrder
<1>3. ASSUME x \in 1..(submitted - 1) PROVE FALSE
  <2>1. x \in Answered
    BY <1>3 DEF OneAtATime, Answered, Responses
  <2> QED
    BY <1>1, <1>2, <2>1 DEF InOrder, Before
<1> QED
  BY <1>1, <1>2, <1>3

\* Every step keeps it, if the platform sends nothing ahead of an answer.
LEMMA OneNext ==
    ASSUME MaxOutstanding <= 1
    PROVE  IInv /\ InOrder /\ NothingBuffered /\ SingleAnswers /\ OneAtATime /\ [Next]_vars
               => OneAtATime'
<1> SUFFICES ASSUME IInv, InOrder, NothingBuffered, SingleAnswers, OneAtATime, [Next]_vars
             PROVE  OneAtATime'
  OBVIOUS
<1> USE DEF fnPipes, platform
<1>0. /\ fn \in Function /\ fn.buf \in Seq(Request) /\ stdin_pipe \in Seq(Request)
      /\ queue \in Seq(Request) /\ Request \subseteq Int /\ submitted \in Nat
  BY SessionAssumption DEF IInv, TypeOK, Function, Request
<1>a. ASSUME UNCHANGED submitted, answers \subseteq answers', fn'.buf = <<>>,
             Answered \subseteq Answered', Pending \subseteq Pending',
             fn'.at # "dead" => fn.at # "dead" /\ (Serving => Serving' /\ fn'.cur = fn.cur)
      PROVE  OneAtATime'
  BY <1>a DEF OneAtATime
<1>1. CASE Submit
  <2>1. /\ submitted' = submitted + 1 /\ submitted' \in Request
        /\ queue' = Append(queue, submitted')
        /\ UNCHANGED <<fn, answers>>
        /\ submitted - Cardinality(answers) < MaxOutstanding
    BY <1>0, <1>1, SessionAssumption DEF Submit, Request
  <2>2. \A r \in 1..submitted : \E a \in answers : a.req = r
    BY <1>0, <2>1, AllAnswered, SessionAssumption
  <2>3. submitted' \in Pending'
    BY <1>0, <2>1, RangeOfAppend DEF Pending
  <2> QED
    BY <1>0, <2>1, <2>2, <2>3 DEF OneAtATime
<1>2. CASE handle_stdin
  <2>1. queue # <<>> /\ queue' = Tail(queue) /\ UNCHANGED <<fn, stdout_pipe, submitted, answers>>
    BY <1>2 DEF handle_stdin
  <2>2. Range(queue) = {Head(queue)} \cup Range(queue') /\ Head(queue) \in Request
    BY <1>0, <2>1, RangeOfTail, TailFacts
  <2>3. CASE fn.at = "dead"
    BY <2>1, <2>3 DEF OneAtATime
  <2>4. CASE fn.at # "dead"
    <3>1. stdin_pipe' = Append(stdin_pipe, Head(queue))
      BY <1>2, <2>4 DEF handle_stdin
    <3>2. Pending' = Pending
      BY <1>0, <2>1, <2>2, <3>1, RangeOfAppend DEF Pending
    <3> QED
      BY <1>a, <2>1, <3>2 DEF Answered, Responses, Serving, OneAtATime
  <2> QED
    BY <2>3, <2>4
<1>3. CASE handle_stdout
  <2>1. Responses' = Responses /\ UNCHANGED <<fn, stdin_pipe, queue, submitted>>
        /\ answers \subseteq answers'
    BY <1>3, Forwarded DEF handle_stdout
  <2> QED
    BY <1>a, <2>1 DEF Answered, Pending, Serving, OneAtATime
<1>4. CASE FnRead
  <2>1. /\ fn.at = "idle" /\ fn'.at = "work" /\ fn'.cur \in Pending
        /\ Pending = Pending' \cup {fn'.cur} /\ Before({fn'.cur}, Pending')
        /\ UNCHANGED <<stdout_pipe, platform>>
        /\ stdin_pipe # <<>> /\ fn'.buf = Tail(stdin_pipe)
    BY <1>4, Received DEF OneAtATime
  <2>2. fn'.cur = submitted
    BY <2>1, OnlyTheLast
  <2>3. fn'.buf = <<>>
    <3>1. /\ fn'.buf \in Seq(Request) /\ DOMAIN fn'.buf = 1..Len(fn'.buf)
      BY <1>0, <2>1, TailFacts
    <3>2. ASSUME fn'.buf # <<>> PROVE FALSE
      <4>1. Head(fn'.buf) \in Range(fn'.buf)
        BY <3>1, <3>2, RangeOfTail
      <4>2. Head(fn'.buf) \in Pending'
        BY <4>1 DEF Pending
      <4>3. Head(fn'.buf) = submitted /\ fn'.cur < Head(fn'.buf)
        BY <2>1, <4>2, OnlyTheLast DEF Before
      <4> QED
        BY <1>0, <2>2, <4>3
    <3> QED
      BY <3>2
  <2>4. Serving'
    BY <2>1 DEF Serving
  <2> QED
    BY <2>1, <2>2, <2>3, <2>4 DEF OneAtATime
<1>5. CASE FnRespond
  <2>1. /\ Answered' = Answered \cup {fn.cur}
        /\ fn'.at = "done" /\ fn'.buf = fn.buf /\ fn.at = "work"
        /\ UNCHANGED <<stdin_pipe, platform>>
    BY <1>5, Responded
  <2> QED
    BY <2>1 DEF OneAtATime, Pending
<1>6. CASE restore_process
  <2>1. /\ UNCHANGED <<stdin_pipe, stdout_pipe, platform>> /\ fn' = snapshot
        /\ fn.at = "asking" /\ Dirty /\ snapshot # Unset
    BY <1>6, Restored
  <2>2. fn'.buf = <<>>
    BY <2>1 DEF NothingBuffered
  <2>3. Pending' = Pending /\ Answered' = Answered /\ ~Serving
    BY <2>1, <2>2 DEF Pending, Answered, Responses, Serving, Dirty, OneAtATime
  <2> QED
    BY <1>a, <2>1, <2>2, <2>3
<1>7. CASE checkpoint_process \/ DetachRevived
  BY <1>7, <1>a DEF checkpoint_process, DetachRevived, Step, Responses, Answered, Pending,
     Serving, OneAtATime
<1>8. CASE Ends
  <2>1. fn'.at = "dead" /\ fn'.buf = fn.buf
    BY <1>0, <1>8 DEF Ends, Function
  <2> QED
    BY <1>8, <2>1 DEF Ends, OneAtATime
<1>9. CASE Unseen
  BY <1>9, <1>a DEF Unseen, Responses, Answered, Pending, OneAtATime
<1> QED
  BY <1>1, <1>2, <1>3, <1>4, <1>5, <1>6, <1>7, <1>8, <1>9, Sorted

\* As long as the platform waits for each answer before it sends the next request,
\* none is lost in a buffer that a restore wipes out, whatever the function calls.
THEOREM SerialLosesNothing ==
    ASSUME MaxOutstanding <= 1
    PROVE  Spec => []NoRequestLost
<1>1. IInv /\ OneAtATime => NoRequestLost
  <2> SUFFICES ASSUME IInv, OneAtATime, fn.at # "dead", NEW r \in 1..submitted
               PROVE  \/ \E a \in answers \cup Range(stdout_pipe) : a.req = r
                      \/ r \in Range(queue) \cup Range(stdin_pipe) \cup Range(fn.buf)
                      \/ r = fn.cur /\ (fn.at = "work" \/ (fn.at = "asking" /\ fn.next = "work"))
    BY DEF NoRequestLost
  <2>1. submitted \in Nat
    BY SessionAssumption DEF IInv, TypeOK
  <2>2. r \in 1..(submitted - 1) \/ (r = submitted /\ submitted > 0)
    BY <2>1
  <2> QED
    BY <2>2 DEF OneAtATime, Answered, Responses, Pending, Serving
<1> QED
  BY InvInit, InvNext, OrderInit, OrderNext, BufferedNext, SingleNext, OneInit, OneNext, <1>1,
     PTL DEF Spec
==============================================================================
