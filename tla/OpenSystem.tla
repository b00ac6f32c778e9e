------------------------------ MODULE OpenSystem ------------------------------
(***************************************************************************)
(* Opening against the EC, with crashes of the host in between.            *)
(*                                                                         *)
(* The EC is external, modelled from the driver's header and the           *)
(* repository's runs: it answers commands in order and in its own time; it *)
(* stays inside an unfinished handshake, where it answers nothing but      *)
(* 0xae, whatever the host does; a command other than the health check     *)
(* sent into that state has cost the keyboard (Run 12); only a cold power  *)
(* cycle takes it out.  What it has sent waits to be read, over a crash of *)
(* the host and by whichever process reads next.                           *)
(***************************************************************************)
EXTENDS OpenDevice

CONSTANT Backlog  \* bound: packets unread when the device is opened

\* An open waits for 20 answers before 0xd0: an EC that held back as many, in
\* their order, could be opened without answering anything.
ASSUME BacklogAssumption == Backlog \in 0 .. 19

VARIABLES
  inq,    \* the packets sent and not read
  owes,   \* the packets still to be sent
  ecMode, \* "idle", "handshake" or "session"
  taken,  \* host records the EC has taken in this handshake
  hurt    \* history: a command reached the EC inside a handshake not its own

ec == <<inq, owes, ecMode, taken, hurt>>
systemVars == <<vars, ec>>

\* A packet, and the command it answers.
Packet(k, c) == [kind |-> k, cmd |-> c]
Record == Packet("tls", "d0")

Replies(c) ==
  CASE c \in {"ae"} -> <<Packet("data", c)>>
    [] c \in {"70", "d4"} -> <<Packet("ack", c)>>
    [] c = "96" -> << >>
    [] c = "d0" -> <<Record>>
    [] OTHER -> <<Packet("ack", c), Packet("data", c)>>

\* The command of the running exchange; drains and listens have none.
Command ==
  CASE os = "HEALTH" -> "a8"
    [] os = "INIT_STEP" -> vendor_init_pre_tls[init_idx].cmd
    [] os = "REQUEST_TLS" -> "d0"
    [] os = "TLS_ESTABLISHED" -> "d4"
    [] os = "MCU_STATE" -> "ae"
    [] OTHER -> "none"

\* rx_classify: an ACK or a reply counts for its own command alone.
Classified(p) ==
  IF p.kind = "tls" THEN [rx |-> "tls", whole |-> 1, part |-> FALSE]
  ELSE [rx |-> IF p.kind = "fdt" \/ p.cmd = Command THEN p.kind ELSE "noise"]

(***************************************************************************)
(* The EC.                                                                 *)
(***************************************************************************)
TakeCommand(c) ==
  IF ecMode = "handshake"
  THEN /\ hurt' = (hurt \/ c \notin {"a8", "ae"})
       /\ owes' = IF c = "ae" THEN owes \o Replies(c) ELSE owes
       /\ UNCHANGED <<ecMode, taken>>
  ELSE /\ owes' = owes \o Replies(c)
       /\ IF c = "d0" THEN ecMode' = "handshake" /\ taken' = 0 ELSE UNCHANGED <<ecMode, taken>>
       /\ UNCHANGED hurt

\* ServerHello and ServerHelloDone draw the EC's flight, of three packs; the
\* host's Finished ends the handshake.
TakeRecord ==
  /\ taken' = taken + 1
  /\ owes' = IF taken + 1 = 2 THEN owes \o <<Record, Record, Record>> ELSE owes
  /\ ecMode' = IF taken + 1 = 4 THEN "session" ELSE ecMode
  /\ UNCHANGED hurt

SendPacket ==
  /\ owes # << >>
  /\ inq' = Append(inq, Head(owes)) /\ owes' = Tail(owes)
  /\ UNCHANGED <<ecMode, taken, hurt, vars>>

\* An arm of an earlier session fires.
SendEvent ==
  /\ Len(inq) < Backlog
  /\ inq' = Append(inq, Packet("fdt", "32"))
  /\ UNCHANGED <<owes, ecMode, taken, hurt, vars>>

PowerCycle ==
  /\ phase = "closed"
  /\ inq' = << >> /\ owes' = << >> /\ ecMode' = "idle" /\ taken' = 0
  /\ UNCHANGED <<hurt, vars>>

(***************************************************************************)
(* The host.                                                               *)
(***************************************************************************)
SystemInit ==
  /\ Init
  /\ inq = << >> /\ owes = << >> /\ ecMode = "idle" /\ taken = 0 /\ hurt = FALSE

SendCommand == ExchangeWritten /\ TakeCommand(Command) /\ UNCHANGED inq
SendRecord == RecordWritten /\ TakeRecord /\ UNCHANGED inq

Read ==
  /\ inq # << >>
  /\ ReadDone(Classified(Head(inq)))
  /\ inq' = Tail(inq)
  /\ UNCHANGED <<owes, ecMode, taken, hurt>>

TimeOut == inq = << >> /\ ReadTimesOut /\ UNCHANGED ec
Fail == TransferFails /\ UNCHANGED ec
Tick == Time /\ UNCHANGED ec

OpenDev == Len(inq \o owes) <= Backlog /\ dev_open /\ UNCHANGED ec
CloseDev == dev_close /\ UNCHANGED ec

\* The process dies and a new one finds a new object; killed in a capture, it
\* leaves an image to come.
Crash ==
  /\ phase # "closed"
  /\ phase' = "closed" /\ sessionValid' = FALSE /\ claimed' = FALSE /\ cleanupFailed' = FALSE
  /\ tls' = NoTls /\ gap' = "over" /\ budget' = "over" /\ rested' = TRUE
  /\ Stopped
  /\ owes' \in IF phase = "open" THEN {owes, owes \o <<Record>>} ELSE {owes}
  /\ UNCHANGED <<inq, ecMode, taken, hurt>>

SystemNext ==
  \/ SendPacket \/ SendEvent \/ PowerCycle
  \/ SendCommand \/ SendRecord \/ Read \/ TimeOut \/ Fail \/ Tick
  \/ OpenDev \/ CloseDev \/ Crash

SystemSpec == SystemInit /\ [][SystemNext]_systemVars

----------------------------------------------------------------------------
\* "0xa8 must be answered before anything else is sent": an EC left inside a
\* handshake, by a crash or a failed open, never receives another command than
\* the health check, whatever stale answers are still to be read.
StuckECIsSpared == ~hurt

\* When a handshake is asked for, every TLS record of an earlier session has been
\* read and dropped: none reaches the new server as the EC's ClientHello.
NoRecordOfAnEarlierSession ==
  os = "REQUEST_TLS" /\ io = "out" =>
    \A q \in {inq, owes} : \A i \in DOMAIN q : q[i].kind # "tls"

\* The two sides agree: 0xd4 tells the EC of a session, and libfprint is given one,
\* only when the EC has finished the same handshake.
SessionIsShared ==
  sessionValid \/ os \in {"TLS_ESTABLISHED", "LISTEN_AFTER_D4", "MCU_STATE", "DRAIN_FINAL"} =>
    ecMode = "session"
=============================================================================
