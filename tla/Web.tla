-------------------------------- MODULE Web --------------------------------
(***************************************************************************)
(* The web service as its clients meet it (web/server.go): logins and      *)
(* their throttle, sessions and their end, the terminal that the pages of  *)
(* a session share.  Every request is served by a goroutine of its own.    *)
(* No read or write of a request has a time limit (main.go:297): a client  *)
(* may send the rest of its request, or take the reply, as late as it      *)
(* likes.                                                                  *)
(*                                                                         *)
(* Time is kept as ages, in steps of which a minute and the lifetime of a  *)
(* session have a few.  Of the configuration only the users matter here;   *)
(* they are changed by the CLI at any time.                                *)
(***************************************************************************)
EXTENDS Lists, FiniteSets, SequencesExt

CONSTANTS
  Requests,   \* requests served at the same time, over one connection or many
  Address,    \* the address each comes from
  Users,
  Tokens,     \* cookies; every login draws a new one
  Limit,      \* failed logins in a minute that close the door, 5 in the code
  Minute,     \* length of a minute
  Lifetime,   \* of a session, sessionTTL
  Nobody

ASSUME WebAssumption ==
  /\ Limit \in Nat \ {0} /\ Minute \in Nat \ {0} /\ Lifetime \in Nat \ {0}
  /\ IsFiniteSet(Requests) /\ DOMAIN Address = Requests
  /\ Nobody \notin Users \cup Requests

VARIABLES
  users,      \* those in the running configuration
  attempts,   \* of each address, the ages of the failed logins on record
  sessions,   \* of each token that is known: user and age
  fresh,      \* tokens not drawn yet
  terminal,   \* of each token: who holds the lock, the mode, the output
  request,    \* of each request: its stage and its data
  guesses     \* of each address, the ages of the wrong passwords tried

webVars == <<users, attempts, sessions, fresh, terminal, request, guesses>>

Addresses == {Address[r] : r \in Requests}

Idle == [stage |-> "idle", user |-> Nobody, right |-> FALSE, token |-> Nobody, lines |-> <<>>]

NewTerminal == [holder |-> Nobody, mode |-> "exec", out |-> <<>>]

WebInit ==
  /\ users \in SUBSET Users
  /\ attempts = [a \in Addresses |-> <<>>] /\ guesses = attempts
  /\ sessions = <<>> /\ fresh = Tokens
  /\ terminal = [t \in Tokens |-> NewTerminal]
  /\ request = [r \in Requests |-> Idle]

Recent(ages) == Only(ages, 0 .. Minute - 1)
Older(ages) == [i \in DOMAIN ages |-> ages[i] + 1]

To(r, changes) == request' = [request EXCEPT ![r] = changes]

-----------------------------------------------------------------------------
(* Logging in                                                              *)

(* Mutant: one failure too many is let through.                            *)
ClosedLate(a) == Len(Recent(attempts[a])) > Limit

(* throttled(ip, false)                                                    *)
Closed(a) == Len(Recent(attempts[a])) >= Limit

(* throttled(ip, true)                                                     *)
Count(a) == attempts' = [attempts EXCEPT ![a] = Append(Recent(@), 0)]

(* A bound: a cookie is left for every login that will succeed.            *)
TokenLeft ==
  Cardinality(fresh) >
    Cardinality({r \in Requests : request[r].stage \in {"login", "hash"} /\ request[r].right})

(* login: the check before the password is looked at.                      *)
Login(r, user, right) ==
  /\ request[r].stage = "idle"
  /\ right => TokenLeft
  /\ ~Closed(Address[r])
  /\ attempts' = [attempts EXCEPT ![Address[r]] = Recent(@)]
  /\ To(r, [Idle EXCEPT !.stage = "login", !.user = user, !.right = right])
  /\ UNCHANGED <<users, sessions, fresh, terminal, guesses>>

(* Mutant: a login that is refused counts as a failure.                    *)
LoginRefusedCounted(r) ==
  /\ request[r].stage = "idle"
  /\ Closed(Address[r])
  /\ Count(Address[r])
  /\ UNCHANGED <<users, sessions, fresh, terminal, request, guesses>>

LoginRefused(r) ==
  /\ request[r].stage = "idle"
  /\ Closed(Address[r])
  /\ attempts' = [attempts EXCEPT ![Address[r]] = Recent(@)]
  /\ UNCHANGED <<users, sessions, fresh, terminal, request, guesses>>

(* The body is here, when the client has sent it, and the users are read;  *)
(* then the password is hashed, which takes its time.                      *)
ReadUsers(r) ==
  /\ request[r].stage = "login"
  /\ To(r, IF users = {} THEN Idle
           ELSE [request[r] EXCEPT !.stage = "hash",
                                   !.right = @ /\ request[r].user \in users])
  /\ UNCHANGED <<users, attempts, sessions, fresh, terminal, guesses>>

WrongPassword(r) ==
  /\ request[r].stage = "hash" /\ ~request[r].right
  /\ Count(Address[r])
  /\ guesses' = [guesses EXCEPT ![Address[r]] = Append(Recent(@), 0)]
  /\ To(r, Idle)
  /\ UNCHANGED <<users, sessions, fresh, terminal>>

Opened(t, user) ==
  [s \in DOMAIN sessions \cup {t} |-> IF s = t THEN [user |-> user, age |-> 0] ELSE sessions[s]]

LoggedIn(r, t) ==
  /\ request[r].stage = "hash" /\ request[r].right
  /\ t \in fresh
  /\ fresh' = fresh \ {t}
  /\ sessions' = Opened(t, request[r].user)
  /\ To(r, Idle)
  /\ UNCHANGED <<users, attempts, terminal, guesses>>

-----------------------------------------------------------------------------
(* Requests of a session                                                   *)

Expired(t) == sessions[t].age > Lifetime

Dropped(t) == [s \in DOMAIN sessions \ {t} |-> sessions[s]]

(* Mutant: a session lives on as long as it is used.                       *)
AdmittedRenewed(t) == [sessions EXCEPT ![t].age = 0]

(* What looking up a session does to it.                                   *)
Admitted(t) == sessions

(* lookup and auth: the session is looked at here and never again, however *)
(* long the request is served.                                             *)
Arrive(r, t, stage, lines) ==
  /\ request[r].stage = "idle"
  /\ t \in DOMAIN sessions /\ ~Expired(t)
  /\ sessions' = Admitted(t)
  /\ To(r, [Idle EXCEPT !.stage = stage, !.user = sessions[t].user, !.token = t, !.lines = lines])
  /\ UNCHANGED <<users, attempts, fresh, terminal, guesses>>

ArriveLate(r, t) ==
  /\ request[r].stage = "idle"
  /\ t \in DOMAIN sessions /\ Expired(t)
  /\ sessions' = Dropped(t)
  /\ UNCHANGED <<users, attempts, fresh, terminal, request, guesses>>

Logout(r) ==
  /\ request[r].stage = "logout"
  /\ sessions' = Dropped(request[r].token)
  /\ To(r, Idle)
  /\ UNCHANGED <<users, attempts, fresh, terminal, guesses>>

(* Mutant: the terminal is not locked.                                     *)
LockTerminalAnyway(r) ==
  LET t == request[r].token IN
  /\ request[r].stage = "cli"
  /\ terminal' = [terminal EXCEPT ![t].holder = r, ![t].out = <<>>]
  /\ To(r, [request[r] EXCEPT !.stage = "lines"])
  /\ UNCHANGED <<users, attempts, sessions, fresh, guesses>>

(* cliExec: the body is here, then ws.mu, and an empty buffer.             *)
LockTerminal(r) ==
  LET t == request[r].token IN
  /\ request[r].stage = "cli"
  /\ terminal[t].holder = Nobody
  /\ terminal' = [terminal EXCEPT ![t].holder = r, ![t].out = <<>>]
  /\ To(r, [request[r] EXCEPT !.stage = "lines"])
  /\ UNCHANGED <<users, attempts, sessions, fresh, guesses>>

(* Session.Execute, of which the modes are left; a session that quits is   *)
(* replaced by a new one, in EXEC mode.                                    *)
ModeAfter(mode, line) ==
  CASE line = "configure" -> "config" [] line = "exit" -> "exec" [] OTHER -> mode

RunLine(r) ==
  LET t == request[r].token
      line == Head(request[r].lines)
  IN
  /\ request[r].stage = "lines" /\ request[r].lines # <<>>
  /\ terminal' = [terminal EXCEPT
       ![t].out = Append(@, [from |-> r, prompt |-> terminal[t].mode, line |-> line]),
       ![t].mode = ModeAfter(@, line)]
  /\ To(r, [request[r] EXCEPT !.lines = Tail(@)])
  /\ UNCHANGED <<users, attempts, sessions, fresh, guesses>>

(* The output is taken by the client and the terminal is free again.       *)
Reply(r) ==
  /\ request[r].stage = "lines" /\ request[r].lines = <<>>
  /\ terminal' = [terminal EXCEPT ![request[r].token].holder = Nobody]
  /\ To(r, Idle)
  /\ UNCHANGED <<users, attempts, sessions, fresh, guesses>>

(* The body of a login or of lines is not what was expected, or does not   *)
(* come before the client is gone; or the client closes an event stream,   *)
(* which is served until then.                                             *)
HangUp(r) ==
  /\ request[r].stage \in {"login", "cli", "stream"}
  /\ To(r, Idle)
  /\ UNCHANGED <<users, attempts, sessions, fresh, terminal, guesses>>

-----------------------------------------------------------------------------
(* The rest of the world                                                   *)

ChangeUsers(new) ==
  /\ users' = new
  /\ UNCHANGED <<attempts, sessions, fresh, terminal, request, guesses>>

(* Ages stop where they make no difference any more.                       *)
Tick ==
  LET aged(ages) == Older(Recent(ages)) IN
  /\ attempts' = [a \in Addresses |-> aged(attempts[a])]
  /\ guesses' = [a \in Addresses |-> aged(guesses[a])]
  /\ sessions' = [t \in DOMAIN sessions |->
                    [sessions[t] EXCEPT !.age = IF @ > Lifetime THEN @ ELSE @ + 1]]
  /\ UNCHANGED <<users, fresh, terminal, request>>

Texts == {<<"configure", "show">>, <<"show", "exit">>}

Work(r) ==
  \/ ReadUsers(r) \/ WrongPassword(r) \/ (\E t \in Tokens : LoggedIn(r, t))
  \/ Logout(r) \/ LockTerminal(r) \/ RunLine(r) \/ Reply(r) \/ HangUp(r)

WebNext ==
  \/ \E r \in Requests :
       \/ \E u \in Users, right \in BOOLEAN : Login(r, u, right)
       \/ LoginRefused(r)
       \/ \E t \in Tokens :
            \/ \E stage \in {"logout", "stream"} : Arrive(r, t, stage, <<>>)
            \/ \E lines \in Texts : Arrive(r, t, "cli", lines)
            \/ ArriveLate(r, t)
       \/ Work(r)
  \/ \E new \in SUBSET Users : ChangeUsers(new)
  \/ Tick

(* The clock goes on.  Nothing else is sure to happen: a request waits for *)
(* its client, and those that share a terminal wait for one that waits.    *)
WebFairness == WF_webVars(Tick)

WebSpec == WebInit /\ [][WebNext]_webVars /\ WebFairness

-----------------------------------------------------------------------------
(* Properties                                                              *)

(* "throttled limits failed logins to 5 per minute per address"            *)
(* (server.go:174).                                                        *)
FailedLoginsLimited == \A a \in Addresses : Len(Recent(guesses[a])) <= Limit

(* What does hold: logins that are let in together are counted only once   *)
(* they have failed, so one less than an address has requests served at    *)
(* the same time comes on top; over HTTP/2 one connection has many.        *)
GuessesAreFew ==
  \A a \in Addresses :
    Len(Recent(guesses[a])) < Limit + Cardinality({r \in Requests : Address[r] = a})

(* A door that has closed opens again, whoever keeps knocking.             *)
DoorOpens == \A a \in Addresses : Closed(a) ~> ~Closed(a)

(* Someone has a session of u with which a request would be let in.        *)
MayEnter(u) == \E t \in DOMAIN sessions : sessions[t].user = u /\ ~Expired(t)

(* A user who is removed for good is let in no more in the end, although   *)
(* removal ends none of the user's sessions and a login under way may open *)
(* one more: they run out and using them does not prolong them.  Requests  *)
(* let in before go on: an event stream or a body that is not sent is held *)
(* as long as its client likes.                                            *)
RemovedUsersLeave ==
  \A u \in Users : <>[](u \notin users) => <>[]~MayEnter(u)

(* The page that sent some lines is shown those lines, each after the      *)
(* prompt that the line before it has led to: what other pages of the same *)
(* session send comes before or after.                                     *)
RepliesAreWhole ==
  \A r \in Requests :
    request[r].stage = "lines" =>
      LET out == terminal[request[r].token].out IN
      /\ \A i \in DOMAIN out : out[i].from = r
      /\ \A i \in 1 .. Len(out) - 1 : out[i + 1].prompt = ModeAfter(out[i].prompt, out[i].line)
      /\ Len(out) + Len(request[r].lines) = 2
=============================================================================
