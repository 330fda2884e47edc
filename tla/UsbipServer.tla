---------------------------- MODULE UsbipServer ----------------------------
(***************************************************************************)
(* emu2/usbip-server/usbip.c: the USB/IP server's connections.  Every turn *)
(* of the main loop calls usbip_server_update(): select() tells which      *)
(* sockets can be read, a new connection is accepted, and the linked list  *)
(* of clients is walked, one command being received from each client that  *)
(* was ready.  A client that disconnected is unlinked and freed while the  *)
(* walk is under way, and the set for select() is rebuilt after it.        *)
(*                                                                         *)
(* The walk is modelled one client at a time because the peers run in      *)
(* parallel: they send, and hang up, while it goes on.  The device runs on *)
(* the server's own thread, between two updates.  A command is received    *)
(* whole; what the device does with a request is in UsbDevice.             *)
(***************************************************************************)
EXTENDS Integers, Sequences, FiniteSets

CONSTANTS
  Fds,         \* socket numbers of clients; the listening socket is ServerFd
  ServerFd,
  MaxBacklog,  \* bound: connections not accepted yet
  MaxInbox     \* bound: commands a peer has under way

ASSUME ServerAssumption ==
  /\ IsFiniteSet(Fds) /\ ServerFd \in Nat /\ Fds \subseteq Nat
  /\ \A fd \in Fds : fd > ServerFd
  /\ MaxBacklog \in Nat /\ MaxInbox \in Nat

VARIABLES
  up,        \* the server exists
  head,      \* server->clients
  nxt,       \* next of each client
  alive,     \* the clients allocated, and their sockets open
  imported,  \* clients whose imported_device is set
  sockSet,   \* the clients in server->sock_set
  maxFd,     \* server->max_set_fd
  listed,    \* the device is in device_list
  backlog,   \* peers waiting to be accepted
  inbox,     \* commands sent on each socket and not received
  eof,       \* sockets whose peer has hung up
  round      \* the update under way: the locals of usbip_server_update()

listVars == <<head, nxt, alive, imported>>
setVars == <<sockSet, maxFd>>
peerVars == <<backlog, inbox, eof>>
vars == <<up, listVars, setVars, listed, peerVars, round>>

NULL == -1

(* OP_REQ_IMPORT, and every other command: those change nothing here. *)
Commands == {"import", "other"}

Least(S) == CHOOSE x \in S : \A y \in S : x <= y
Greatest(S) == CHOOSE x \in S : \A y \in S : x >= y

(* The list from its head: walk[i] is the (i+1)th client. *)
Walk == LET walk[i \in 0 .. Cardinality(Fds)] ==
              IF i = 0 THEN head
              ELSE IF walk[i - 1] = NULL THEN NULL ELSE nxt[walk[i - 1]]
        IN  walk

Clients == {Walk[i] : i \in DOMAIN Walk} \ {NULL}

Tail0 == CHOOSE c \in Clients : nxt[c] = NULL

NoRound == [on |-> FALSE, ready |-> {}, client |-> NULL, prev |-> NULL,
            rebuild |-> FALSE, due |-> {}, served |-> {}]

-----------------------------------------------------------------------------
(* usbip_server_update() *)

ReadableBelowMax ==
  {fd \in sockSet : fd < maxFd /\ (inbox[fd] # << >> \/ fd \in eof)}

(* select() is given max_set_fd + 1. *)
Readable == {fd \in sockSet : fd <= maxFd /\ (inbox[fd] # << >> \/ fd \in eof)}

Begun(h) == round' = [NoRound EXCEPT !.on = TRUE, !.ready = Readable,
                                     !.client = h, !.due = Readable \cap Clients]

Select == /\ up /\ ~round.on
          /\ backlog = 0 /\ Readable # {}
          /\ Begun(head)
          /\ UNCHANGED <<up, listVars, setVars, listed, peerVars>>

Raised(fd) == IF fd > maxFd THEN fd ELSE maxFd

(* accept(): the lowest free number, appended to the list. *)
SelectAndAccept ==
  /\ up /\ ~round.on
  /\ backlog > 0
  /\ LET fd == Least(Fds \ alive)
     IN  /\ backlog' = backlog - 1
         /\ alive' = alive \cup {fd}
         /\ sockSet' = sockSet \cup {fd}
         /\ maxFd' = Raised(fd)
         /\ head' = IF head = NULL THEN fd ELSE head
         /\ nxt' = IF head = NULL THEN [nxt EXCEPT ![fd] = NULL]
                   ELSE [nxt EXCEPT ![fd] = NULL, ![Tail0] = fd]
         /\ Begun(head')
  /\ UNCHANGED <<up, imported, listed, inbox, eof>>

(* usbip_client_recv(): hanging up, or asking for a device that is not     *)
(* listed, ends the connection. *)
Disconnects(c) ==
  inbox[c] # << >> => c \notin imported /\ Head(inbox[c]) = "import" /\ ~listed

Advance(prev, next, served, rebuild) ==
  round' = [round EXCEPT !.prev = prev, !.client = next, !.served = served,
                         !.rebuild = rebuild]

PassOver ==
  /\ round.on /\ round.client # NULL /\ round.client \notin round.ready
  /\ Advance(round.client, nxt[round.client], round.served, round.rebuild)
  /\ UNCHANGED <<up, listVars, setVars, listed, peerVars>>

Serve ==
  LET c == round.client
  IN  /\ round.on /\ c # NULL /\ c \in round.ready
      /\ ~Disconnects(c)
      /\ inbox' = [inbox EXCEPT ![c] = Tail(@)]
      /\ imported' = IF Head(inbox[c]) = "import" THEN imported \cup {c}
                     ELSE imported
      /\ Advance(c, nxt[c], round.served \cup {c}, round.rebuild)
      /\ UNCHANGED <<up, head, nxt, alive, setVars, listed, backlog, eof>>

Unlinked(c, prev) ==
  IF prev # NULL
  THEN nxt' = [nxt EXCEPT ![prev] = nxt[c], ![c] = NULL] /\ UNCHANGED head
  ELSE head' = nxt[c] /\ nxt' = [nxt EXCEPT ![c] = NULL]

FreedPrev(c) == c

(* "keep old prev": where the walk goes on after c has been freed. *)
PrevAfterDrop(c) == round.prev

NextOfNext(c) == IF nxt[c] = NULL THEN NULL ELSE nxt[nxt[c]]

NextAfterDrop(c) == nxt[c]

Drop ==
  LET c == round.client
  IN  /\ round.on /\ c # NULL /\ c \in round.ready
      /\ Disconnects(c)
      /\ inbox' = [inbox EXCEPT ![c] = << >>]
      /\ eof' = eof \ {c}
      /\ Unlinked(c, round.prev)
      /\ alive' = alive \ {c}
      /\ imported' = imported \ {c}
      /\ Advance(PrevAfterDrop(c), NextAfterDrop(c), round.served \cup {c},
                 TRUE)
      /\ UNCHANGED <<up, setVars, listed, backlog>>

FinishWithoutRebuild ==
  /\ round.on /\ round.client = NULL
  /\ round' = NoRound
  /\ UNCHANGED <<up, listVars, setVars, listed, peerVars>>

Finish ==
  /\ round.on /\ round.client = NULL
  /\ IF round.rebuild
     THEN /\ sockSet' = {}
          /\ maxFd' = Greatest({ServerFd} \cup Clients)
     ELSE UNCHANGED setVars
  /\ round' = NoRound
  /\ UNCHANGED <<up, listVars, listed, peerVars>>

-----------------------------------------------------------------------------
(* The device's thread, between two updates. *)

usbip_add_device == /\ ~round.on /\ ~listed
                    /\ listed' = TRUE
                    /\ UNCHANGED <<up, listVars, setVars, peerVars, round>>

(* usbip_destroy_server() and usbip_create_server(), which may fail.       *)
Recreate ==
  /\ ~round.on
  /\ up' \in BOOLEAN
  /\ head' = NULL
  /\ alive' = {}
  /\ imported' = {}
  /\ sockSet' = {}
  /\ maxFd' = ServerFd
  /\ backlog' = 0
  /\ nxt' = [fd \in Fds |-> NULL]
  /\ inbox' = [fd \in Fds |-> << >>]
  /\ eof' = {}
  /\ UNCHANGED <<listed, round>>

(* The peers.  There are never more connections than socket numbers. *)

Connect == /\ up /\ backlog < MaxBacklog
           /\ backlog < Cardinality(Fds \ alive)
           /\ backlog' = backlog + 1
           /\ UNCHANGED <<up, listVars, setVars, listed, inbox, eof, round>>

Send(fd, command) ==
  /\ fd \in alive \ eof /\ Len(inbox[fd]) < MaxInbox
  /\ inbox' = [inbox EXCEPT ![fd] = Append(@, command)]
  /\ UNCHANGED <<up, listVars, setVars, listed, backlog, eof, round>>

HangUp(fd) == /\ fd \in alive \ eof
              /\ eof' = eof \cup {fd}
              /\ UNCHANGED <<up, listVars, setVars, listed, backlog, inbox, round>>

-----------------------------------------------------------------------------
Init == /\ up = FALSE
        /\ head = NULL
        /\ nxt = [fd \in Fds |-> NULL]
        /\ alive = {}
        /\ imported = {}
        /\ sockSet = {}
        /\ maxFd = ServerFd
        /\ listed = FALSE
        /\ backlog = 0
        /\ inbox = [fd \in Fds |-> << >>]
        /\ eof = {}
        /\ round = NoRound

Update == Select \/ SelectAndAccept \/ PassOver \/ Serve \/ Drop \/ Finish

Peers == \/ Connect
         \/ \E fd \in Fds : HangUp(fd) \/ \E m \in Commands : Send(fd, m)

Next == Update \/ usbip_add_device \/ Recreate \/ Peers

(* main() calls usbip_server_update() in every turn of its loop. *)
Spec == Init /\ [][Next]_vars /\ WF_vars(Update)

-----------------------------------------------------------------------------
(* Whatever the walk unlinks, the list from its head ends, and holds       *)
(* exactly the clients that are allocated: none is lost, and no freed one  *)
(* is reached.  The walk's own pointers are never those of a freed client. *)
ListSound ==
  /\ Walk[Cardinality(Fds)] = NULL
  /\ Clients = alive
  /\ {round.client, round.prev} \subseteq alive \cup {NULL}
  /\ round.prev # NULL => nxt[round.prev] = round.client

(* One update receives exactly one command (or the hang-up) of each client *)
(* that select() reported, also when clients before it are removed.        *)
AllDueServed == round.on /\ round.client = NULL => round.served = round.due

(* Between two updates select() is only given sockets that are open, and   *)
(* max_set_fd covers them: otherwise it would fail, or miss a client,      *)
(* from then on. *)
WatchedAreOpen ==
  ~round.on => /\ sockSet \subseteq alive
               /\ \A fd \in sockSet : fd <= maxFd

(* "rebuilt sosket set if someone disconnected": between two updates every *)
(* client in the list is watched. *)
ClientsWatched == ~round.on => Clients \subseteq sockSet

(* A command of a watched client is received, unless the client stops      *)
(* being watched or the server goes down. *)
CommandsReceived ==
  \A fd \in Fds :
    (up /\ fd \in sockSet /\ Len(inbox[fd]) = MaxInbox)
      ~> (~up \/ fd \notin sockSet \/ Len(inbox[fd]) < MaxInbox)
=============================================================================
