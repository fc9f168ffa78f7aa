----------------------------- MODULE ClientAuth -----------------------------
(***************************************************************************)
(* How the browser comes by a vCenter identity, and what it sends of it.   *)
(* Opened from the vSphere Client (a plug-in, in an iframe) the page loads *)
(* the client's SDK from the vCenter host, polls it for a clone ticket or  *)
(* a session, and listens to messages from the parent frame; opened        *)
(* directly it holds the token of a session of this server                 *)
(* (plugin-context.service.ts, the session part of api.service.ts).        *)
(***************************************************************************)
EXTENDS Integers

CONSTANTS
  Sessions,   \* vCenter session ids
  Tickets,    \* clone tickets
  Tokens,     \* session tokens of this server
  None,
  BlindPolls, \* attempts of _pollVsphereClientSdk without the SDK (40)
  SdkPolls    \* attempts once a script of the SDK has loaded (20)

ASSUME ClientAuthAssumption ==
  /\ {BlindPolls, SdkPolls} \subseteq Nat \ {0}
  /\ None \notin Sessions \cup Tickets \cup Tokens
  /\ Sessions \cap Tickets = {}

VARIABLES
  isPlugin,      \* in an iframe, or ?plugin=1
  sessionId,     \* PluginContextService.sessionId
  cloneTicket,   \* PluginContextService.cloneTicket
  sessionSignal, \* current value of the BehaviorSubject sessionId$
  sdk,           \* what the search for the SDK is doing
  sessionToken   \* ApiService.sessionToken, also in sessionStorage

authVars == <<isPlugin, sessionId, cloneTicket, sessionSignal, sdk, sessionToken>>

\* Paths _loadVsphereSdk tries in turn.
SdkPaths == 2

SdkState == [pc : {"load", "poll", "ticket", "session", "stopped"},
             tried : 0..(SdkPaths - 1), left : Nat]

AuthTypeOK ==
  /\ isPlugin \in BOOLEAN
  /\ sessionId \in Sessions \cup {None}
  /\ cloneTicket \in Tickets \cup {None}
  /\ sessionSignal \in Sessions \cup Tickets \cup {None}
  /\ sdk \in SdkState
  /\ sessionToken \in Tokens \cup {None}

Stopped == [pc |-> "stopped", tried |-> 0, left |-> 0]
Polling(attempts) == [pc |-> "poll", tried |-> 0, left |-> attempts]

\* The session of the URL is there or not (a placeholder that vCenter has not
\* substituted counts as not there); the host to load the SDK from is known or not.
\* What the other way of opening the page would use is left out.
AuthInit ==
  /\ isPlugin \in BOOLEAN
  /\ sessionId \in IF isPlugin THEN Sessions \cup {None} ELSE {None}
  /\ sessionSignal = sessionId
  /\ cloneTicket = None
  /\ sdk \in IF isPlugin
             THEN {[pc |-> "load", tried |-> 0, left |-> 0], Polling(BlindPolls)}
             ELSE {Stopped}
  /\ sessionToken \in IF isPlugin THEN {None} ELSE Tokens \cup {None}

-----------------------------------------------------------------------------
(***************************************************************************)
(* Looking for the SDK                                                     *)
(***************************************************************************)

\* The script at the current path loads, and is polled; or it does not, and the
\* next one is tried, after the last of them polling goes on without it.
SdkLoads ==
  /\ sdk.pc = "load"
  /\ \/ sdk' = Polling(SdkPolls)
     \/ sdk' = IF sdk.tried + 1 < SdkPaths THEN [sdk EXCEPT !.tried = @ + 1]
               ELSE Polling(BlindPolls)
  /\ UNCHANGED <<isPlugin, sessionId, cloneTicket, sessionSignal, sessionToken>>

\* The end of an attempt that brought nothing.
Again == IF sdk.left > 1 THEN Polling(sdk.left - 1) ELSE Stopped

\* tryNow: the SDK is not there yet, offers tickets, or only sessions.
SdkPoll ==
  /\ sdk.pc = "poll"
  /\ \/ sdk' = Again
     \/ \E call \in {"ticket", "session"} : sdk' = [sdk EXCEPT !.pc = call]
  /\ UNCHANGED <<isPlugin, sessionId, cloneTicket, sessionSignal, sessionToken>>

\* Faulty: a ticket is stored as if it were a session id.
TakeTicketAsSession(ticket) ==
  /\ cloneTicket' = ticket
  /\ sessionId' = ticket
  /\ sessionSignal' = ticket

\* acquireCloneTicket() answers with a ticket.  Sessions keep their own variable;
\* the signal is shared, so that waitForSession resolves.
TakeTicket(ticket) ==
  /\ cloneTicket' = ticket
  /\ sessionSignal' = ticket
  /\ UNCHANGED sessionId

\* getSessionId(), getToken() or a property, or a message of the parent frame.
TakeSession(session) ==
  /\ sessionId' = session
  /\ sessionSignal' = session
  /\ UNCHANGED cloneTicket

\* A call of the SDK answers: with a value, with nothing (for a ticket, a session is
\* asked for next), or by an exception.
SdkAnswers ==
  /\ \/ /\ sdk.pc = "ticket"
        /\ \/ \E ticket \in Tickets : TakeTicket(ticket) /\ sdk' = Stopped
           \/ /\ sdk' \in {[sdk EXCEPT !.pc = "session"], Again}
              /\ UNCHANGED <<sessionId, cloneTicket, sessionSignal>>
     \/ /\ sdk.pc = "session"
        /\ \/ \E session \in Sessions : TakeSession(session) /\ sdk' = Stopped
           \/ sdk' = Again /\ UNCHANGED <<sessionId, cloneTicket, sessionSignal>>
  /\ UNCHANGED <<isPlugin, sessionToken>>

\* The listener of "message" events.
ParentMessage ==
  /\ isPlugin
  /\ \E session \in Sessions : TakeSession(session)
  /\ UNCHANGED <<isPlugin, sdk, sessionToken>>

-----------------------------------------------------------------------------
(***************************************************************************)
(* Sessions of this server                                                 *)
(***************************************************************************)

\* createSession(password), which only a page outside vCenter calls (config save).
CreateSession ==
  /\ ~isPlugin
  /\ sessionToken' \in Tokens
  /\ UNCHANGED <<isPlugin, sessionId, cloneTicket, sessionSignal, sdk>>

-----------------------------------------------------------------------------
(***************************************************************************)
(* What the other parts of the page use                                    *)
(***************************************************************************)

HasAuth == IF isPlugin THEN sessionId # None \/ cloneTicket # None ELSE sessionToken # None

\* The credentials sessionHeaders() puts on a request.  There is no header for the
\* clone ticket.
SessionHeaders ==
  [session |-> IF isPlugin THEN sessionId ELSE None,
   token   |-> IF isPlugin THEN None ELSE sessionToken]

\* Faulty: a promise without a timer.
WaitIsSignalled(timeIsUp) == sessionSignal # None

\* A promise of waitForSession resolves: at the signal, or when its time is up.
WaitIsOver(timeIsUp) == timeIsUp \/ sessionSignal # None

AuthStep == SdkLoads \/ SdkPoll \/ SdkAnswers \/ ParentMessage \/ CreateSession
=============================================================================
