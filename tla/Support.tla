------------------------------- MODULE Support -------------------------------
(***************************************************************************)
(* Support chat (src/src/modules/support-chat).  A ticket is claimed by an *)
(* agent behind a Redis lock and a conditional update, assigned or closed  *)
(* by unconditional updates, and rated; each change is broadcast to the    *)
(* dashboards.  A message is saved, broadcast to the sockets in the room   *)
(* of the ticket, and a push is asked for if the room looks empty.         *)
(*                                                                         *)
(* One ticket.  Its subject, and what messages say, are left out; lists    *)
(* and typing signals change nothing.                                      *)
(***************************************************************************)
EXTENDS Naturals, FiniteSets

CONSTANTS
  Agents,
  TicketRequests,   \* claims, assignments, closings, ratings: each served once
  Sockets,          \* connected clients
  SideOf,           \* by socket: "CUSTOMER" or "AGENT"
  Messages,         \* identities of messages
  NoAgent, NoLock,
  MaxSupportFaults

ASSUME SideOfAssumption == SideOf \in [Sockets -> {"CUSTOMER", "AGENT"}]
ASSUME SocketsAssumption == IsFiniteSet(Sockets)
ASSUME SupportBoundAssumption == MaxSupportFaults \in Nat
ASSUME NoAgentAssumption == NoAgent \notin Agents /\ NoLock \notin TicketRequests

VARIABLES
  ticket,      \* status, agent, and whether it is rated
  ticketLock,  \* ticket_lock: the request whose value it holds
  desk,        \* by request: where it is
  board,       \* what the dashboards were told last
  claimed,     \* agents who were told that they have the ticket (history)
  assigned,    \* whether an administrator ever assigned it (history)
  reordered,   \* whether two changes were ever under way at once (history)
  room,        \* sockets in the room of the ticket
  message,     \* by identity: where its sending is, and who it has reached
  supportFaults

ticketVars == <<ticket, ticketLock, desk, board, claimed, assigned, reordered>>
roomVars == <<room, message>>
supportVars == <<ticketVars, roomVars, supportFaults>>

DeskIdle == [at |-> "idle"]
DeskDone == [at |-> "done"]
Serving(r) == desk[r] \notin {DeskIdle, DeskDone}
DeskAt(r, l) == desk' = [desk EXCEPT ![r].at = l]
LeaveDesk(r) == desk' = [desk EXCEPT ![r] = DeskDone]
NoMessage == [at |-> "none"]

SupportInit ==
  /\ ticket = [status |-> "OPEN", agent |-> NoAgent, rated |-> FALSE]
  /\ ticketLock = NoLock
  /\ desk = [r \in TicketRequests |-> DeskIdle]
  /\ board = [status |-> "OPEN", agent |-> NoAgent]
  /\ claimed = {} /\ assigned = FALSE /\ reordered = FALSE
  /\ room = {}
  /\ message = [m \in Messages |-> NoMessage]
  /\ supportFaults = 0

-----------------------------------------------------------------------------
(* claimTicket *)

Serve(r, q) ==
  /\ desk[r] = DeskIdle
  /\ desk' = [desk EXCEPT ![r] = q]
  /\ reordered' = (reordered \/ \E s \in TicketRequests : Serving(s))
  /\ UNCHANGED <<ticket, ticketLock, board, claimed, assigned, roomVars, supportFaults>>

AskClaim(r, a) == Serve(r, [at |-> "lock", op |-> "claim", agent |-> a])

SetTicketLock(r) ==
  /\ desk[r].at = "lock"
  /\ IF ticketLock = NoLock
     THEN ticketLock' = r /\ DeskAt(r, "claim")
     ELSE LeaveDesk(r) /\ UNCHANGED ticketLock
  /\ UNCHANGED <<ticket, board, claimed, assigned, reordered, roomVars, supportFaults>>

\* Variant: the lock is taken to be enough.
NotClosed == ticket.status # "CLOSED"
Claimable == ticket.status = "OPEN" /\ ticket.agent = NoAgent

ClaimConversation(r) ==
  /\ desk[r].at = "claim"
  /\ IF Claimable
     THEN /\ ticket' = [ticket EXCEPT !.status = "ASSIGNED", !.agent = desk[r].agent]
          /\ claimed' = claimed \union {desk[r].agent}
          /\ DeskAt(r, "emit")
     ELSE DeskAt(r, "unlock") /\ UNCHANGED <<ticket, claimed>>
  /\ UNCHANGED <<ticketLock, board, assigned, reordered, roomVars, supportFaults>>

\* The finally: whoever has the lock by now.
DelTicketLock(r) ==
  /\ desk[r].at = "unlock"
  /\ ticketLock' = NoLock
  /\ LeaveDesk(r)
  /\ UNCHANGED <<ticket, board, claimed, assigned, reordered, roomVars, supportFaults>>

TicketLockExpires ==
  /\ ticketLock # NoLock
  /\ ticketLock' = NoLock
  /\ UNCHANGED <<ticket, desk, board, claimed, assigned, reordered, roomVars, supportFaults>>

-----------------------------------------------------------------------------
(* assignTicket, closeTicket and rateTicket *)

AskAssign(r, a) == Serve(r, [at |-> "assign", op |-> "assign", agent |-> a])
AskClose(r) == Serve(r, [at |-> "close", op |-> "close", agent |-> NoAgent])
AskRate(r) == Serve(r, [at |-> "readTicket", op |-> "rate", agent |-> NoAgent])

UpdateConversation(r) ==
  /\ \/ /\ desk[r].at = "assign"
        /\ ticket' = [ticket EXCEPT !.status = "ASSIGNED", !.agent = desk[r].agent]
        /\ assigned' = TRUE
     \/ /\ desk[r].at = "close"
        /\ ticket' = [ticket EXCEPT !.status = "CLOSED"]
        /\ UNCHANGED assigned
  /\ DeskAt(r, "emit")
  /\ UNCHANGED <<ticketLock, board, claimed, reordered, roomVars, supportFaults>>

ReadTicket(r) ==
  /\ desk[r].at = "readTicket"
  /\ IF ticket.status = "CLOSED" THEN DeskAt(r, "rate") ELSE LeaveDesk(r)
  /\ UNCHANGED <<ticket, ticketLock, board, claimed, assigned, reordered, roomVars, supportFaults>>

RateConversation(r) ==
  /\ desk[r].at = "rate"
  /\ ticket' = [ticket EXCEPT !.rated = TRUE]
  /\ LeaveDesk(r)
  /\ UNCHANGED <<ticketLock, board, claimed, assigned, reordered, roomVars, supportFaults>>

\* Variant: only an agent's name is passed on, and a closing has none.
BoardIfAgent(r) == IF desk[r].op = "close" THEN board ELSE [status |-> "ASSIGNED", agent |-> desk[r].agent]
\* The payload of support.ticket.updated; a closing leaves the agent out.
BoardAfter(r) == IF desk[r].op = "close" THEN [board EXCEPT !.status = "CLOSED"]
                 ELSE [status |-> "ASSIGNED", agent |-> desk[r].agent]

TicketUpdated(r) ==
  /\ desk[r].at = "emit"
  /\ board' = BoardAfter(r)
  /\ IF desk[r].op = "claim" THEN DeskAt(r, "unlock") ELSE LeaveDesk(r)
  /\ UNCHANGED <<ticket, ticketLock, claimed, assigned, reordered, roomVars, supportFaults>>

DeskCrashes(r) ==
  /\ Serving(r)
  /\ supportFaults < MaxSupportFaults
  /\ supportFaults' = supportFaults + 1
  /\ LeaveDesk(r)
  /\ UNCHANGED <<ticket, ticketLock, board, claimed, assigned, reordered, roomVars>>

-----------------------------------------------------------------------------
(* The gateway. *)

InRoom(side) == {s \in room : SideOf[s] = side}
Sending(m) == message[m].at \in {"saved", "stamped", "sent"}

\* Anybody who comes in while a message is between its broadcast and the count.
Join(s) ==
  /\ s \notin room
  /\ room' = room \union {s}
  /\ message' = [m \in Messages |->
                   IF message[m].at = "sent" THEN [message[m] EXCEPT !.joined = TRUE] ELSE message[m]]
  /\ UNCHANGED <<ticketVars, supportFaults>>

Disconnect(s) ==
  /\ s \in room
  /\ room' = room \ {s}
  /\ UNCHANGED <<ticketVars, message, supportFaults>>

\* The sender need not have joined.
SaveMessage(m, s) ==
  /\ message[m] = NoMessage
  /\ message' = [message EXCEPT ![m] = [at |-> "saved", by |-> SideOf[s], reached |-> {}, pushed |-> FALSE,
                                        joined |-> FALSE, crowd |-> FALSE, seen |-> FALSE, delivered |-> FALSE]]
  /\ UNCHANGED <<ticketVars, room, supportFaults>>

StampConversation(m) ==
  /\ message[m].at = "saved"
  /\ message' = [message EXCEPT ![m].at = "stamped"]
  /\ UNCHANGED <<ticketVars, room, supportFaults>>

Broadcast(m) ==
  /\ message[m].at = "stamped"
  /\ message' = [message EXCEPT ![m].at = "sent", ![m].reached = {SideOf[s] : s \in room}]
  /\ UNCHANGED <<ticketVars, room, supportFaults>>

\* Variant: the sender is not counted.
NobodyIsIn(sockets) == sockets = {}
LooksOffline(sockets) == Cardinality(sockets) <= 1

\* fetchSockets; crowd notes that the sender's side had several sockets there.
CountRoom(m) ==
  /\ message[m].at = "sent"
  /\ message' = [message EXCEPT ![m].at = "done", ![m].pushed = LooksOffline(room),
                                ![m].crowd = Cardinality(InRoom(message[m].by)) > 1]
  /\ UNCHANGED <<ticketVars, room, supportFaults>>

SenderCrashes(m) ==
  /\ Sending(m)
  /\ supportFaults < MaxSupportFaults
  /\ supportFaults' = supportFaults + 1
  /\ message' = [message EXCEPT ![m].at = "lost"]
  /\ UNCHANGED <<ticketVars, room>>

\* markMessagesAsRead and markMessagesAsDelivered: all of the other side.
ToRead(m, side) == message[m] # NoMessage /\ message[m].by # side

MessageSeen(side) ==
  /\ message' = [m \in Messages |->
                   IF ToRead(m, side) THEN [message[m] EXCEPT !.seen = TRUE] ELSE message[m]]
  /\ UNCHANGED <<ticketVars, room, supportFaults>>

MessageDelivered(side) ==
  /\ message' = [m \in Messages |->
                   IF ToRead(m, side) THEN [message[m] EXCEPT !.delivered = TRUE] ELSE message[m]]
  /\ UNCHANGED <<ticketVars, room, supportFaults>>

-----------------------------------------------------------------------------

DeskStep(r) ==
  \/ \E a \in Agents : AskClaim(r, a) \/ AskAssign(r, a)
  \/ AskClose(r) \/ AskRate(r)
  \/ SetTicketLock(r) \/ ClaimConversation(r) \/ DelTicketLock(r)
  \/ UpdateConversation(r) \/ ReadTicket(r) \/ RateConversation(r) \/ TicketUpdated(r)
  \/ DeskCrashes(r)

MessageStep(m) ==
  \/ \E s \in Sockets : SaveMessage(m, s)
  \/ StampConversation(m) \/ Broadcast(m) \/ CountRoom(m) \/ SenderCrashes(m)

TicketNext == TicketLockExpires \/ \E r \in TicketRequests : DeskStep(r)
RoomNext ==
  \/ \E m \in Messages : MessageStep(m)
  \/ \E s \in Sockets : Join(s) \/ Disconnect(s) \/ MessageSeen(SideOf[s]) \/ MessageDelivered(SideOf[s])

SupportNext == TicketNext \/ RoomNext

SupportSpec == SupportInit /\ [][SupportNext]_supportVars

-----------------------------------------------------------------------------

SupportTypeOK ==
  /\ ticket \in [status : {"OPEN", "ASSIGNED", "CLOSED"}, agent : Agents \union {NoAgent}, rated : BOOLEAN]
  /\ ticketLock \in TicketRequests \union {NoLock}
  /\ ticket.status = "OPEN" => ticket.agent = NoAgent
  /\ room \subseteq Sockets
  /\ supportFaults \in 0..MaxSupportFaults

\* Of all agents who claim the ticket one at most is told that it is theirs, and
\* it stays theirs until an administrator assigns it - even when the lock runs out,
\* or is deleted by a claim that lost.
OneClaimHolds ==
  /\ Cardinality(claimed) <= 1
  /\ ~assigned => \A a \in claimed : ticket.agent = a

\* Once nothing is under way, the dashboards show the status and the agent that
\* the ticket has, unless two changes were ever under way at once (their
\* broadcasts may come in the other order) or one crashed before its broadcast.
BoardShowsTicket ==
  (\A r \in TicketRequests : ~Serving(r)) /\ ~reordered /\ supportFaults = 0 =>
    board = [status |-> ticket.status, agent |-> ticket.agent]

\* One agent at a time holds a ticket they claimed, and the dashboards show the
\* ticket as it is.
TicketsAgree == OneClaimHolds /\ BoardShowsTicket

\* A message that was sent has reached a socket of the other side, or a push was
\* asked for: whoever joins and leaves meanwhile.  Not so if the sender's side has
\* several sockets in the room, which are counted as if one were the recipient, or
\* if somebody joined between the broadcast and the count.
NobodyIsMissed ==
  \A m \in Messages :
    message[m].at = "done" /\ ~message[m].crowd /\ ~message[m].joined =>
      message[m].pushed \/ message[m].reached \ {message[m].by} # {}
=============================================================================
