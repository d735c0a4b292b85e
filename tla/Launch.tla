-------------------------------- MODULE Launch --------------------------------
(***************************************************************************)
(* How the function is started: launch of groundhog-launcher.c and of      *)
(* faasafe-launcher.c, spc_drop_privileges of libs/proc_privileges.c, and  *)
(* the beginning and the end of controller.                                *)
(*                                                                         *)
(* Five pipes are made before fork; child and parent then close and move   *)
(* descriptors side by side, the child drops the privileges of a setuid or *)
(* setgid launcher, asks to be traced and executes the function.  The      *)
(* function finds its command pipes at 4 and 5 (open_pipes of              *)
(* shared_library.c and c_lib_tracee.c).  What it does then is Session; a  *)
(* launcher of faasafe only waits for its end.                             *)
(***************************************************************************)
EXTENDS Integers, Sequences, FiniteSets, FiniteSetsExt, Functions

CONSTANTS
    Programs,       \* which of the two launchers: "groundhog", "faasafe"
    Inherited,      \* descriptors that may be open when the launcher starts
    MaxFd,          \* RLIMIT_NOFILE
    Id              \* user and group numbers; 0 is root

ASSUME LaunchAssumption == 0 \in Id /\ MaxFd \in Nat

VARIABLES
    program,
    ppc,            \* where the parent is
    cpc,            \* where the child is
    ends,           \* the two descriptors of each pipe
    table,          \* the open descriptors of each process, and what they are
    moved,          \* how many descriptors the child has moved
    uid, gid,       \* real, effective and saved identity of the child
    groups,         \* whose ancillary groups the child has
    status          \* what wait has to say about the child

vars == <<program, ppc, cpc, ends, table, moved, uid, gid, groups, status>>

Root == 0
\* The pipes, in the order in which they are made.
Pipes == <<"in", "out", "err", "cmd_in", "cmd_out">>
Pipe  == Range(Pipes)
Other == [pipe |-> "none", end |-> 0]
End   == [pipe : Pipe, end : {0, 1}]        \* end 0 is read, end 1 is written

-------------------------------------------------------------------------------
(* Descriptors: what the kernel does. *)

Unused(t) == 0..(MaxFd - 1) \ DOMAIN t
Lowest(t) == Min(Unused(t))
Opened(t, fd, what) == [f \in DOMAIN t \cup {fd} |-> IF f = fd THEN what ELSE t[f]]
Closed(t, fds) == [f \in DOMAIN t \ fds |-> t[f]]

-------------------------------------------------------------------------------
(* Identities: what the kernel lets a process do. *)

Same(i) == [real |-> i, effective |-> i, saved |-> i]
Privileged == uid.effective = Root

\* setregid(i, i), setegid(i), seteuid(i): root may, and who is i already.
CanSetRegid(g, i) == Privileged \/ i \in {g.real, g.effective}
CanSetEgid(g, i)  == Privileged \/ i \in {g.real, g.effective, g.saved}
CanSetEuid(i)     == Privileged \/ i \in {uid.real, uid.effective, uid.saved}

-------------------------------------------------------------------------------
Identity == {[real |-> r, effective |-> e, saved |-> e] : r, e \in Id}

Init ==
    /\ program \in Programs
    /\ ppc = "pipes" /\ cpc = "unborn" /\ status = "none" /\ moved = 0
    /\ ends = <<>>
    /\ \E open \in SUBSET Inherited :
          table = [parent |-> [fd \in open |-> Other], child |-> <<>>]
    /\ uid \in Identity /\ gid \in Identity
    /\ groups = "inherited"

\* mk_pipe: the two lowest numbers, or exit(1).
mk_pipe ==
    /\ ppc = "pipes" /\ Len(ends) < Len(Pipes)
    /\ LET t == table.parent
           p == Pipes[Len(ends) + 1]
       IN  IF Cardinality(Unused(t)) < 2
           THEN ppc' = "ended" /\ UNCHANGED <<ends, table>>
           ELSE LET r == Lowest(t)
                    with_r == Opened(t, r, [pipe |-> p, end |-> 0])
                    w == Lowest(with_r)
                IN  /\ ends' = Append(ends, <<r, w>>)
                    /\ table' = [table EXCEPT !.parent =
                                    Opened(with_r, w, [pipe |-> p, end |-> 1])]
                    /\ UNCHANGED ppc
    /\ UNCHANGED <<program, cpc, moved, uid, gid, groups, status>>

\* The descriptors as launch names them.
tracked_in      == ends[1]
tracked_out     == ends[2]
tracked_err     == ends[3]
tracked_cmd_in  == ends[4]
tracked_cmd_out == ends[5]

\* fork may fail.
Fork ==
    /\ ppc = "pipes" /\ Len(ends) = Len(Pipes)
    /\ \/ /\ ppc' = "close" /\ cpc' = "close"
          /\ table' = [table EXCEPT !.child = table.parent]
       \/ ppc' = "ended" /\ UNCHANGED <<cpc, table>>
    /\ UNCHANGED <<program, moved, ends, uid, gid, groups, status>>

\* Mutant: the parent keeps the end that the child writes its commands to.
BugKeepsOne == {tracked_in[1], tracked_out[2], tracked_err[2], tracked_cmd_in[1]}

\* What the parent closes.
ParentCloses == {tracked_in[1], tracked_out[2], tracked_err[2], tracked_cmd_in[1],
                 tracked_cmd_out[2]}

\* Mutant: the child keeps the end that its own output is read from.
BugKeepsOutput == {0, 1, 2, tracked_in[2], tracked_err[1], tracked_cmd_in[2],
                   tracked_cmd_out[1]}

\* What the child closes, and what it then moves to where, in this order.
ChildCloses == {0, 1, 2, tracked_in[2], tracked_out[1], tracked_err[1], tracked_cmd_in[2],
                tracked_cmd_out[1]}

\* Mutant: the pipes for the commands come first.
BugCommandsFirst == <<<<tracked_cmd_in[1], 4>>, <<tracked_cmd_out[2], 5>>, <<tracked_in[1], 0>>,
                      <<tracked_out[2], 1>>, <<tracked_err[2], 2>>>>

Moves == <<<<tracked_in[1], 0>>, <<tracked_out[2], 1>>, <<tracked_err[2], 2>>,
           <<tracked_cmd_in[1], 4>>, <<tracked_cmd_out[2], 5>>>>

-------------------------------------------------------------------------------
(* The child.  Nobody else sees its table before it ends: the closes are one  *)
(* step.                                                                      *)

\* exit, abort, or a signal: the descriptors are closed.
ChildEnds(how) ==
    /\ cpc' = "dead" /\ status' = how
    /\ table' = [table EXCEPT !.child = <<>>]

\* close_fd of a number that is not open is an exit(1).
ChildClose ==
    /\ cpc = "close"
    /\ IF ChildCloses \subseteq DOMAIN table.child
       THEN /\ cpc' = "move"
            /\ table' = [table EXCEPT !.child = Closed(table.child, ChildCloses)]
            /\ UNCHANGED status
       ELSE ChildEnds("exited")
    /\ UNCHANGED <<program, ppc, moved, ends, uid, gid, groups>>

\* mv_fd: dup2 of a number that is not open fails; the old number is closed
\* even when it is the new one.
ChildMove ==
    /\ cpc = "move" /\ moved < Len(Moves)
    /\ LET old == Moves[moved + 1][1]
           new == Moves[moved + 1][2]
       IN  IF old \in DOMAIN table.child
           THEN /\ moved' = moved + 1
                /\ cpc' = IF moved' < Len(Moves) THEN "move"
                          ELSE IF program = "groundhog" THEN "drop" ELSE "exec"
                /\ table' = [table EXCEPT !.child =
                                Closed(Opened(@, new, @[old]), {old})]
                /\ UNCHANGED status
           ELSE ChildEnds("exited") /\ UNCHANGED moved
    /\ UNCHANGED <<program, ppc, ends, uid, gid, groups>>

\* Mutant: the user is not looked at.
BugOnlyGroups(g) ==
    gid.real # gid.effective => ~CanSetEgid(g, gid.effective) /\ g.effective = gid.real

\* The second half of spc_drop_privileges(1): abort if anything could be taken
\* back, or was not changed.  seteuid and setegid that succeed here are undone
\* by the abort.
Verified(g) ==
    /\ gid.real # gid.effective =>
          ~CanSetEgid(g, gid.effective) /\ g.effective = gid.real
    /\ uid.real # uid.effective =>
          ~CanSetEuid(uid.effective) /\ uid.effective = uid.real

\* The first half, in the branch for linux: where the user differs, it is the
\* group that is set, to the number of the user.  The user is never changed.
spc_drop_privileges ==
    /\ cpc = "drop"
    /\ LET g1 == IF gid.real # gid.effective THEN Same(gid.real) ELSE gid
           g2 == IF uid.real # uid.effective THEN Same(uid.real) ELSE g1
           allowed == /\ gid.real # gid.effective => CanSetRegid(gid, gid.real)
                      /\ uid.real # uid.effective => CanSetRegid(g1, uid.real)
       IN  IF allowed /\ Verified(g2)
           THEN /\ cpc' = "exec" /\ gid' = g2
                /\ groups' = IF Privileged THEN "own" ELSE groups
                /\ UNCHANGED <<table, status>>
           ELSE ChildEnds("aborted") /\ UNCHANGED <<gid, groups>>
    /\ UNCHANGED <<program, ppc, moved, ends, uid>>

\* PTRACE_TRACEME and execvp: a trap, or exit(127).
Exec ==
    /\ cpc = "exec"
    /\ \/ cpc' = "trapped" /\ status' = "trap" /\ UNCHANGED table
       \/ ChildEnds("exited")
    /\ UNCHANGED <<program, ppc, moved, ends, uid, gid, groups>>

FnAsks ==
    /\ cpc = "runs" /\ cpc' = "asks"
    /\ UNCHANGED <<program, ppc, moved, ends, table, uid, gid, groups, status>>

FnEnds ==
    /\ cpc \in {"runs", "asks"}
    /\ ChildEnds("exited")
    /\ UNCHANGED <<program, ppc, moved, ends, uid, gid, groups>>

-------------------------------------------------------------------------------
(* The parent. *)

ParentClose ==
    /\ ppc = "close" /\ ppc' = "wait"
    /\ table' = [table EXCEPT !.parent = Closed(table.parent, ParentCloses)]
    /\ UNCHANGED <<program, cpc, moved, ends, uid, gid, groups, status>>

\* The first wait.  status is 1407 when it is the trap of execvp; the parent
\* then detaches.  Otherwise the launcher ends, groundhog's by an assertion if
\* it was to be kept alive.
FirstWait ==
    /\ ppc = "wait" /\ status # "none"
    /\ IF status = "trap" THEN ppc' = "serve" /\ cpc' = "runs" /\ status' = "none"
       ELSE ppc' = "ended" /\ UNCHANGED <<cpc, status>>
    /\ UNCHANGED <<program, moved, ends, table, uid, gid, groups>>

Holders(what) ==
    {h \in {"parent", "child"} \X (0..(MaxFd - 1)) :
        h[2] \in DOMAIN table[h[1]] /\ table[h[1]][h[2]] = what}

\* handle_stdcmd answers (Session has what it does), and returns at the end of
\* the pipe, which is there when no process has it open for writing.
Answer ==
    /\ ppc = "serve" /\ program = "groundhog" /\ cpc = "asks"
    /\ cpc' = "runs"
    /\ UNCHANGED <<program, ppc, moved, ends, table, uid, gid, groups, status>>

EndOfCommands ==
    /\ ppc = "serve" /\ program = "groundhog"
    /\ Holders([pipe |-> "cmd_out", end |-> 1]) = {}
    /\ ppc' = "reap"
    /\ UNCHANGED <<program, cpc, moved, ends, table, uid, gid, groups, status>>

\* The wait of the loop; faasafe's launcher does nothing else.
LoopWait ==
    /\ ppc = IF program = "groundhog" THEN "reap" ELSE "serve"
    /\ status # "none" /\ ppc' = "ended"
    /\ UNCHANGED <<program, cpc, moved, ends, table, uid, gid, groups, status>>

Child  == ChildClose \/ ChildMove \/ spc_drop_privileges \/ Exec
Parent == mk_pipe \/ Fork \/ ParentClose \/ FirstWait \/ Answer \/ EndOfCommands \/ LoopWait

Next == Child \/ Parent \/ FnAsks \/ FnEnds

Fairness == WF_vars(Child) /\ WF_vars(Parent)

Spec == Init /\ [][Next]_vars /\ Fairness

-------------------------------------------------------------------------------
Started == cpc \in {"trapped", "runs", "asks"}

\* The function finds its pipes at 0, 1, 2, 4 and 5, and has no other end of
\* them, whatever descriptors the launcher was started with (launch,
\* open_pipes).
Wired ==
    Started =>
        /\ \A f \in DOMAIN table.child : table.child[f] # Other =>
              <<f, table.child[f].pipe, table.child[f].end>> \in
                 {<<0, "in", 0>>, <<1, "out", 1>>, <<2, "err", 1>>, <<4, "cmd_in", 0>>,
                  <<5, "cmd_out", 1>>}
        /\ {0, 1, 2, 4, 5} \subseteq DOMAIN table.child
        /\ \A f \in {0, 1, 2, 4, 5} : table.child[f] # Other

\* Once both are done, every end of a pipe is open in one process, at one
\* number: a process that goes away is seen to have gone.
HeldOnce ==
    Started /\ ppc \notin {"pipes", "close"} =>
        \A e \in End : Cardinality(Holders(e)) = 1

\* A function that was started by groundhog has the identity of its invoker, in
\* user and group, real, effective and saved, and root's no ancillary groups of
\* somebody else (spc_drop_privileges).
PrivilegesDropped ==
    Started /\ program = "groundhog" =>
        uid = Same(uid.real) /\ gid = Same(gid.real) /\ (Privileged => groups = "own")

\* When the function has ended, or was never started, the launcher ends.
LauncherEnds == cpc = "dead" ~> ppc = "ended"
===============================================================================
