----------------------------- MODULE PtyRelay -----------------------------
(***************************************************************************)
(* pty_demo: ptyFork() starts a shell on a pseudo-terminal, and the parent *)
(* relays lines from its standard input to the shell and from the shell to *)
(* its standard output, in a loop around select().                         *)
(*                                                                         *)
(* The kernel buffers InCap lines on the way to the shell and OutCap on    *)
(* the way back.  A write() to the master fails while nobody has the slave *)
(* open.  A read() from it fails once the slave was open and is closed     *)
(* again and all output has been read, but blocks before it is opened.     *)
(***************************************************************************)
EXTENDS Integers, Sequences

CONSTANTS
  InCap, OutCap,  \* lines that the pseudo-terminal holds in either direction
  MaxTyped,       \* lines that the user types (a bound)
  MaxSaid,        \* lines that the shell writes (a bound)
  SizeMax,        \* the range of size_t: 2^64, or any smaller power of two
  PtyFaults       \* a subset of PtyFaultKinds

PtyFaultKinds == {"atexit", "select", "read", "print",  \* a call of the relay that fails
                  "signal"}                             \* the user interrupts the relay

ASSUME PtyAssumption == /\ InCap \in Nat \ {0} /\ OutCap \in Nat \ {0}
                        /\ MaxTyped \in Nat /\ MaxSaid \in Nat
                        /\ SizeMax \in Nat /\ SizeMax > 2
                        /\ PtyFaults \subseteq PtyFaultKinds

VARIABLES
  rpc, ready, hand,      \* the relay; the result of select(); the line it has read
  child,                 \* the child, which becomes the shell
  slave,                 \* the slave: "new", "open" or "closed"
  stdin, eof,            \* lines typed and not yet read; the user has ended the input
  toShell, fromShell,    \* lines in the pseudo-terminal
  screen,                \* lines on the standard output
  typed, said,           \* lines typed by the user and written by the shell, so far
  failed                 \* history: what has gone wrong, of PtyFaultKinds

relay == <<rpc, ready, hand, screen, failed>>
user == <<stdin, eof, typed>>
pty == <<slave, toShell, fromShell>>
ptyVars == <<relay, child, pty, user, said>>

Line == 1..MaxTyped
Said == 1..MaxSaid

PtyTypeOK ==
  /\ rpc \in {"open", "fork", "select", "stdin", "write", "master", "done"}
  /\ ready \subseteq {"stdin", "master"} /\ hand \in Seq(Line) /\ Len(hand) <= 1
  /\ child \in {"none", "setsid", "open", "setup", "shell", "gone"}
  /\ slave \in {"new", "open", "closed"}
  /\ stdin \in Seq(Line) /\ eof \in BOOLEAN
  /\ toShell \in Seq(Line) /\ Len(toShell) <= InCap
  /\ fromShell \in Seq(Said) /\ Len(fromShell) <= OutCap
  /\ screen \in Seq(Said) /\ typed \in 0..MaxTyped /\ said \in 0..MaxSaid
  /\ failed \subseteq PtyFaults

PtyInit ==
  /\ rpc = "open" /\ ready = {} /\ hand = <<>>
  /\ child = "none" /\ slave = "new"
  /\ stdin = <<>> /\ eof = FALSE /\ toShell = <<>> /\ fromShell = <<>>
  /\ screen = <<>> /\ typed = 0 /\ said = 0 /\ failed = {}

\* Mutant: numRead is an ssize_t.
MutSigned(n) == n

\* What a size_t holds after an assignment or in a comparison.
SizeT(n) == n % SizeMax

-----------------------------------------------------------------------------
(* The relay.                                                              *)

Fails(kind) == kind \in PtyFaults /\ failed' = failed \cup {kind}

\* Whether the relay goes on after a read() that returned n, 1 for a line or -1:
\* numRead is a size_t, and a write() of (size_t)-1 bytes fails and returns -1.
GoesOn(n) == LET numRead == SizeT(n)
                 wrote == IF numRead = 1 THEN 1 ELSE -1
             IN ~(numRead <= 0) /\ SizeT(wrote) = numRead

AfterStdin == IF "master" \in ready THEN "master" ELSE "select"

ROpen ==    \* ptyMasterOpen(): every failure ends the program
  /\ rpc = "open" /\ rpc' \in {"fork", "done"}
  /\ UNCHANGED <<ready, hand, screen, failed, child, pty, user, said>>

RFork ==    \* fork() may fail, and atexit() after it
  /\ rpc = "fork"
  /\ \/ rpc' = "select" /\ child' = "setsid" /\ UNCHANGED failed
     \/ rpc' = "done" /\ UNCHANGED <<child, failed>>
     \/ rpc' = "done" /\ child' = "setsid" /\ Fails("atexit")
  /\ UNCHANGED <<ready, hand, screen, pty, user, said>>

Ready == (IF stdin # <<>> \/ eof THEN {"stdin"} ELSE {})
            \cup (IF fromShell # <<>> \/ slave = "closed" THEN {"master"} ELSE {})

RSelect ==
  /\ rpc = "select"
  /\ \/ /\ Ready # {} /\ ready' = Ready
        /\ rpc' = IF "stdin" \in Ready THEN "stdin" ELSE "master"
        /\ UNCHANGED failed
     \/ rpc' = "done" /\ Fails("select") /\ UNCHANGED ready
  /\ UNCHANGED <<hand, screen, child, pty, user, said>>

RStdin ==   \* read(0); 0 at end of file
  /\ rpc = "stdin"
  /\ \/ /\ stdin # <<>> /\ hand' = <<Head(stdin)>> /\ stdin' = Tail(stdin)
        /\ rpc' = "write" /\ UNCHANGED failed
     \/ stdin = <<>> /\ rpc' = "done" /\ UNCHANGED <<hand, stdin, failed>>
     \/ /\ Fails("read") /\ rpc' = IF GoesOn(-1) THEN AfterStdin ELSE "done"
        /\ UNCHANGED <<hand, stdin>>
  /\ UNCHANGED <<ready, screen, child, pty, eof, typed, said>>

RWrite ==   \* write(masterFd), which sleeps while the pseudo-terminal is full
  /\ rpc = "write"
  /\ \/ /\ slave # "open"
        /\ rpc' = "done" /\ UNCHANGED <<hand, toShell>>
     \/ /\ slave = "open" /\ Len(toShell) < InCap
        /\ toShell' = toShell \o hand /\ hand' = <<>>
        /\ rpc' = AfterStdin
  /\ UNCHANGED <<ready, screen, failed, child, slave, fromShell, user, said>>

\* Mutant: the shell's output is read and not printed.
MutDrop ==
  /\ rpc = "master" /\ fromShell # <<>> /\ fromShell' = Tail(fromShell)
  /\ screen' = screen /\ rpc' = "select"
  /\ UNCHANGED <<ready, hand, failed, child, slave, toShell, user, said>>

RMaster ==  \* read(masterFd), which has no line once the slave is closed; write(1)
  /\ rpc = "master"
  /\ \/ /\ fromShell # <<>> /\ fromShell' = Tail(fromShell)
        /\ \/ /\ screen' = Append(screen, Head(fromShell))
              /\ rpc' = IF GoesOn(1) THEN "select" ELSE "done"
              /\ UNCHANGED failed
           \/ Fails("print") /\ rpc' = "done" /\ UNCHANGED screen
     \/ /\ fromShell = <<>> /\ rpc' = IF GoesOn(-1) THEN "select" ELSE "done"
        /\ UNCHANGED <<fromShell, screen, failed>>
  /\ UNCHANGED <<ready, hand, child, slave, toShell, user, said>>

RKill ==    \* its terminal is as it was: ^C is for the relay, not for the shell
  /\ rpc # "done" /\ rpc' = "done" /\ Fails("signal")
  /\ UNCHANGED <<ready, hand, screen, child, pty, user, said>>

-----------------------------------------------------------------------------
(* The child in ptyFork() and execlp(); each of its calls may fail.        *)

\* The child ends, and so the slave has nobody left.
Ends == child' = "gone" /\ slave' = IF slave = "open" THEN "closed" ELSE slave

CSetsid ==
  /\ child = "setsid" /\ child' \in {"open", "gone"}
  /\ UNCHANGED <<relay, pty, user, said>>

COpen ==     \* it fails when the master has been closed
  /\ child = "open"
  /\ \/ rpc # "done" /\ child' = "setup" /\ slave' = "open"
     \/ Ends
  /\ UNCHANGED <<relay, toShell, fromShell, user, said>>

CSetup ==    \* TIOCSCTTY, tcsetattr(), TIOCSWINSZ, dup2(), and execlp()
  /\ child = "setup"
  /\ \/ child' = "shell" /\ UNCHANGED slave
     \/ Ends
  /\ UNCHANGED <<relay, toShell, fromShell, user, said>>

ShellReads ==
  /\ child = "shell" /\ toShell # <<>> /\ toShell' = Tail(toShell)
  /\ UNCHANGED <<relay, child, slave, fromShell, user, said>>

ShellWrites ==
  /\ child = "shell" /\ said < MaxSaid /\ Len(fromShell) < OutCap
  /\ said' = said + 1 /\ fromShell' = Append(fromShell, said + 1)
  /\ UNCHANGED <<relay, child, slave, toShell, user>>

ShellExits == \* by itself, or hung up when the relay has closed the master
  /\ child = "shell" /\ Ends
  /\ UNCHANGED <<relay, toShell, fromShell, user, said>>

-----------------------------------------------------------------------------
UserTypes ==
  /\ ~eof /\ typed < MaxTyped
  /\ typed' = typed + 1 /\ stdin' = Append(stdin, typed + 1)
  /\ UNCHANGED <<relay, child, pty, eof, said>>

UserEnds ==
  /\ ~eof /\ eof' = TRUE
  /\ UNCHANGED <<relay, child, pty, stdin, typed, said>>

-----------------------------------------------------------------------------
Relay == ROpen \/ RFork \/ RSelect \/ RStdin \/ RWrite \/ RMaster
Child == CSetsid \/ COpen \/ CSetup

PtyNext == \/ Relay \/ RKill \/ Child
           \/ ShellReads \/ ShellWrites \/ ShellExits
           \/ UserTypes \/ UserEnds

PtySpec == PtyInit /\ [][PtyNext]_ptyVars

\* The relay and the child are scheduled; the shell and the user owe nothing.
PtyFairSpec == PtySpec /\ WF_ptyVars(Relay) /\ WF_ptyVars(Child)

-----------------------------------------------------------------------------
(* Properties.                                                             *)

\* Neither the end of the shell nor a read() that fails ends the relay: numRead
\* cannot be negative, and -1 written of (size_t)-1 bytes counts as all of them.
\* Once the shell was started, the relay ends with the input, with a line in its
\* hand that no shell is there to take, or because one of its other calls failed
\* or the user interrupted it.
OnlyUserEnds == (rpc = "done" /\ child # "none") =>
   \/ eof /\ stdin = <<>>
   \/ hand # <<>> /\ slave # "open"
   \/ failed \cap {"atexit", "select", "print", "signal"} # {}

\* If the lines typed fit into the pseudo-terminal, no write() holds the relay up:
\* it ends when the user has ended the input, whatever the shell does, unless a
\* read of the input has failed, which the relay takes for one that did not; and
\* until it ends what the shell writes gets onto the screen, in order, also if
\* the shell ends at once.
RelayServes == MaxTyped <= InCap =>
   /\ eof ~> (rpc = "done" \/ "read" \in failed)
   /\ \A n \in Said : said >= n ~> (rpc = "done" \/ (Len(screen) >= n /\ screen[n] = n))
=============================================================================
