------------------------------ MODULE WebProofs ------------------------------
(***************************************************************************)
(* The web service for any number of requests, sessions and users.  The    *)
(* terminal of a session: while a page's lines are entered nothing else    *)
(* is, so what is sent back to it is its own and complete.  The throttle:  *)
(* every password that is tried has been let in by the check.              *)
(***************************************************************************)
EXTENDS Web, ListProofs, FiniteSetTheorems, TLAPS

USE WebAssumption

Lines == {"configure", "show", "exit"}
Modes == {"exec", "config"}
Outputs == [from : Requests, prompt : Modes, line : Lines]
Stages == {"idle", "login", "hash", "logout", "stream", "cli", "lines"}

RequestTypes == [stage : Stages, user : Users \cup {Nobody}, right : BOOLEAN,
                 token : Tokens \cup {Nobody}, lines : Seq(Lines)]
TerminalTypes == [holder : Requests \cup {Nobody}, mode : Modes, out : Seq(Outputs)]

SessionsOK ==
  /\ DOMAIN sessions \subseteq Tokens /\ fresh \subseteq Tokens
  /\ \A t \in DOMAIN sessions : sessions[t] \in [user : Users, age : Int]

WebTypeOK ==
  /\ SessionsOK
  /\ terminal \in [Tokens -> TerminalTypes]
  /\ request \in [Requests -> RequestTypes]

(* What the holder of a terminal has been shown, and what it has left.     *)
Prompted(out) ==
  \A i \in 1 .. Len(out) - 1 : out[i + 1].prompt = ModeAfter(out[i].prompt, out[i].line)

Whole(r, held, lines) ==
  LET out == held.out IN
  /\ held.holder = r
  /\ \A i \in 1 .. Len(out) : out[i].from = r
  /\ Prompted(out)
  /\ out # <<>> => held.mode = ModeAfter(out[Len(out)].prompt, out[Len(out)].line)
  /\ Len(out) + Len(lines) = 2

(* What a request has been given when it gets that far.                    *)
Ready(q) ==
  /\ q.stage \in {"login", "hash"} => q.user \in Users
  /\ q.stage \in {"cli", "lines"} => q.token \in Tokens
  /\ q.stage = "cli" => Len(q.lines) = 2

AllReady == \A r \in Requests : Ready(request[r])

AllWhole ==
  \A r \in Requests :
    request[r].stage = "lines" => Whole(r, terminal[request[r].token], request[r].lines)

TerminalInv == WebTypeOK /\ AllReady /\ AllWhole

LEMMA IdleIsTyped == Idle \in RequestTypes /\ Idle.stage = "idle" /\ Ready(Idle)
BY DEF Idle, RequestTypes, Stages, Lines, Ready

LEMMA TextsAreTyped == \A lines \in Texts : lines \in Seq(Lines) /\ Len(lines) = 2
<1>1. <<"configure", "show">> \in Seq(Lines) /\ Len(<<"configure", "show">>) = 2
  BY DEF Lines
<1>2. <<"show", "exit">> \in Seq(Lines) /\ Len(<<"show", "exit">>) = 2
  BY DEF Lines
<1> QED
  BY <1>1, <1>2 DEF Texts

(* A step that leaves the terminals alone and gives request r another      *)
(* content that is in order.                                               *)
LEMMA RequestStep ==
  ASSUME TerminalInv, NEW r \in Requests, NEW new \in RequestTypes, To(r, new),
         UNCHANGED terminal, new.stage # "lines", Ready(new)
  PROVE  request' \in [Requests -> RequestTypes] /\ AllReady' /\ AllWhole'
<1>1. request \in [Requests -> RequestTypes]
  BY DEF TerminalInv, WebTypeOK
<1>2. request' \in [Requests -> RequestTypes] /\ request'[r] = new
      /\ \A q \in Requests : q # r => request'[q] = request[q]
  BY <1>1 DEF To
<1>3. AllReady'
  BY <1>2 DEF AllReady, TerminalInv
<1>4. AllWhole'
  BY <1>2 DEF AllWhole, TerminalInv
<1> QED
  BY <1>2, <1>3, <1>4

(* A step of the world, or one that is refused.                            *)
LEMMA SilentStep ==
  ASSUME TerminalInv, UNCHANGED <<terminal, request>>
  PROVE  AllReady' /\ AllWhole'
<1>1. AllReady'
  BY DEF TerminalInv, AllReady
<1>2. AllWhole'
  BY DEF TerminalInv, AllWhole
<1> QED
  BY <1>1, <1>2

LEMMA LoginStep ==
  ASSUME TerminalInv, NEW r \in Requests, NEW u \in Users, NEW right \in BOOLEAN,
         Login(r, u, right)
  PROVE  TerminalInv'
<1> DEFINE new == [Idle EXCEPT !.stage = "login", !.user = u, !.right = right]
<1> DEFINE named == [Idle EXCEPT !.stage = "login", !.user = u]
<1>1. named \in RequestTypes /\ named.stage = "login" /\ named.user = u
  BY IdleIsTyped DEF RequestTypes, Stages
<1>0. new = [named EXCEPT !.right = right]
  OBVIOUS
<1>2. To(r, new) /\ UNCHANGED <<terminal, sessions, fresh>>
  BY DEF Login
<1> HIDE DEF new, named
<1>3. new \in RequestTypes /\ new.stage = "login" /\ new.user = u
  BY <1>0, <1>1 DEF RequestTypes
<1>4. Ready(new) /\ new.stage # "lines"
  BY <1>3 DEF Ready
<1> QED
  BY <1>2, <1>3, <1>4, RequestStep DEF TerminalInv, WebTypeOK, SessionsOK

LEMMA PasswordSteps ==
  ASSUME TerminalInv, NEW r \in Requests,
         LoginRefused(r) \/ ReadUsers(r) \/ WrongPassword(r) \/ Logout(r) \/ HangUp(r)
  PROVE  TerminalInv'
<1>1. CASE Logout(r)
  <2>1. To(r, Idle) /\ UNCHANGED terminal
    BY <1>1 DEF Logout
  <2>2. SessionsOK'
    BY <1>1 DEF Logout, Dropped, SessionsOK, TerminalInv, WebTypeOK
  <2> QED
    BY <2>1, <2>2, IdleIsTyped, RequestStep DEF TerminalInv, WebTypeOK
<1>2. CASE LoginRefused(r)
  <2>1. UNCHANGED <<terminal, sessions, fresh, request>>
    BY <1>2 DEF LoginRefused
  <2> QED
    BY <2>1, SilentStep DEF TerminalInv, WebTypeOK, SessionsOK
<1>3. CASE ReadUsers(r)
  <2>1. UNCHANGED <<terminal, sessions, fresh>> /\ request[r] \in RequestTypes
    BY <1>3 DEF ReadUsers, TerminalInv, WebTypeOK
  <2>2. CASE users = {}
    <3>1. To(r, Idle)
      BY <1>3, <2>2 DEF ReadUsers
    <3> QED
      BY <2>1, <3>1, IdleIsTyped, RequestStep DEF TerminalInv, WebTypeOK, SessionsOK
  <2>3. CASE users # {}
    <3> DEFINE new == [request[r] EXCEPT !.stage = "hash",
                                         !.right = @ /\ request[r].user \in users]
    <3>1. To(r, new)
      BY <1>3, <2>3 DEF ReadUsers
    <3>2. new \in RequestTypes /\ new.stage = "hash" /\ new.user = request[r].user
      BY <2>1 DEF RequestTypes, Stages
    <3>3. request[r].user \in Users
      BY <1>3 DEF ReadUsers, TerminalInv, AllReady, Ready
    <3>4. Ready(new)
      BY <3>2, <3>3 DEF Ready
    <3> HIDE DEF new
    <3> QED
      BY <2>1, <3>1, <3>2, <3>4, RequestStep DEF TerminalInv, WebTypeOK, SessionsOK
  <2> QED
    BY <2>2, <2>3
<1>4. CASE WrongPassword(r)
  <2>1. To(r, Idle) /\ UNCHANGED <<terminal, sessions, fresh>>
    BY <1>4 DEF WrongPassword
  <2> QED
    BY <2>1, IdleIsTyped, RequestStep DEF TerminalInv, WebTypeOK, SessionsOK
<1>5. CASE HangUp(r)
  <2>1. To(r, Idle) /\ UNCHANGED <<terminal, sessions, fresh>>
    BY <1>5 DEF HangUp
  <2> QED
    BY <2>1, IdleIsTyped, RequestStep DEF TerminalInv, WebTypeOK, SessionsOK
<1> QED
  BY <1>1, <1>2, <1>3, <1>4, <1>5

LEMMA SessionSteps ==
  ASSUME TerminalInv, NEW r \in Requests, NEW t \in Tokens,
         LoggedIn(r, t) \/ ArriveLate(r, t)
  PROVE  TerminalInv'
<1>1. CASE LoggedIn(r, t)
  <2>1. To(r, Idle) /\ UNCHANGED terminal /\ request[r].user \in Users
    BY <1>1 DEF LoggedIn, TerminalInv, AllReady, Ready
  <2>2. SessionsOK'
    BY <1>1, <2>1 DEF LoggedIn, Opened, SessionsOK, TerminalInv, WebTypeOK
  <2> QED
    BY <2>1, <2>2, IdleIsTyped, RequestStep DEF TerminalInv, WebTypeOK
<1>2. CASE ArriveLate(r, t)
  <2>1. UNCHANGED <<terminal, request>>
    BY <1>2 DEF ArriveLate
  <2>2. SessionsOK'
    BY <1>2 DEF ArriveLate, Dropped, SessionsOK, TerminalInv, WebTypeOK
  <2> QED
    BY <2>1, <2>2, SilentStep DEF TerminalInv, WebTypeOK
<1> QED
  BY <1>1, <1>2

LEMMA ArriveStep ==
  ASSUME TerminalInv, NEW r \in Requests, NEW t \in Tokens,
         NEW stage \in {"logout", "stream", "cli"}, NEW lines \in Seq(Lines),
         stage = "cli" => Len(lines) = 2, Arrive(r, t, stage, lines)
  PROVE  TerminalInv'
<1> DEFINE new == [Idle EXCEPT !.stage = stage, !.user = sessions[t].user,
                               !.token = t, !.lines = lines]
<1>1. sessions[t].user \in Users
  BY DEF Arrive, TerminalInv, WebTypeOK, SessionsOK
<1>2. new \in RequestTypes /\ Ready(new) /\ new.stage # "lines"
  BY <1>1 DEF Idle, RequestTypes, Stages, Ready
<1>3. To(r, new) /\ UNCHANGED <<terminal, sessions, fresh>>
  BY DEF Arrive, Admitted
<1> HIDE DEF new
<1> QED
  BY <1>2, <1>3, RequestStep DEF TerminalInv, WebTypeOK, SessionsOK

Locked(h, r) == [h EXCEPT !.holder = r, !.out = <<>>]
Printed(h, shown, mode) == [h EXCEPT !.out = Append(@, shown), !.mode = mode]

LEMMA LockedTerminal ==
  ASSUME NEW h \in TerminalTypes, NEW r \in Requests
  PROVE  /\ Locked(h, r) \in TerminalTypes
         /\ Locked(h, r).holder = r /\ Locked(h, r).out = <<>>
<1> DEFINE taken == [h EXCEPT !.holder = r]
           none == <<>>
<1>1. taken \in TerminalTypes /\ taken.holder = r
  BY DEF TerminalTypes
<1>2. Locked(h, r) = [taken EXCEPT !.out = none]
  BY DEF Locked
<1>3. none \in Seq(Outputs)
  OBVIOUS
<1> HIDE DEF taken, none
<1>4. /\ [taken EXCEPT !.out = none] \in TerminalTypes
      /\ [taken EXCEPT !.out = none].holder = r
      /\ [taken EXCEPT !.out = none].out = none
  BY <1>1, <1>3 DEF TerminalTypes
<1> QED
  BY <1>2, <1>4 DEF none

LEMMA PrintedTerminal ==
  ASSUME NEW h \in TerminalTypes, NEW shown \in Outputs, NEW mode \in Modes
  PROVE  LET run == Printed(h, shown, mode) IN
         /\ run \in TerminalTypes /\ run.holder = h.holder
         /\ run.out = Append(h.out, shown) /\ run.mode = mode
<1>1. Append(h.out, shown) \in Seq(Outputs)
  BY DEF TerminalTypes
<1> QED
  BY <1>1 DEF TerminalTypes, Printed

(* The terminal is free, so that it is no other request's.                 *)
LEMMA LockStep ==
  ASSUME TerminalInv, NEW r \in Requests, LockTerminal(r)
  PROVE  TerminalInv'
<1> DEFINE t == request[r].token
           held == Locked(terminal[t], r)
           new == [request[r] EXCEPT !.stage = "lines"]
<1>1. /\ t \in Tokens /\ terminal[t] \in TerminalTypes /\ terminal[t].holder = Nobody
      /\ request[r] \in RequestTypes /\ Len(request[r].lines) = 2
  BY DEF LockTerminal, TerminalInv, WebTypeOK, AllReady, Ready
<1>2. held \in TerminalTypes /\ held.holder = r /\ held.out = <<>>
  BY <1>1, LockedTerminal
<1>3. new \in RequestTypes /\ new.token = t /\ new.lines = request[r].lines
      /\ new.stage = "lines"
  BY <1>1 DEF RequestTypes, Stages
<1>4. terminal' = [terminal EXCEPT ![t] = held] /\ request' = [request EXCEPT ![r] = new]
      /\ UNCHANGED <<sessions, fresh>>
  BY <1>1 DEF LockTerminal, To, TerminalTypes, Locked
<1> HIDE DEF t, held, new
<1>5. Whole(r, held, new.lines)
  BY <1>1, <1>2, <1>3 DEF Whole, Prompted
<1>6. WebTypeOK'
  BY <1>1, <1>2, <1>3, <1>4 DEF TerminalInv, WebTypeOK, SessionsOK
<1>7. ASSUME NEW q \in Requests, q # r, request[q].stage = "lines"
      PROVE  request[q].token # t
  BY <1>1, <1>7 DEF TerminalInv, AllWhole, Whole
<1>8. AllReady'
  BY <1>1, <1>3, <1>4 DEF TerminalInv, WebTypeOK, AllReady, Ready
<1>9. AllWhole'
  <2> SUFFICES ASSUME NEW q \in Requests, request'[q].stage = "lines"
               PROVE  Whole(q, terminal'[request'[q].token], request'[q].lines)
    BY DEF AllWhole
  <2>1. CASE q = r
    BY <1>1, <1>3, <1>4, <1>5, <2>1 DEF TerminalInv, WebTypeOK
  <2>2. CASE q # r
    <3>1. request'[q] = request[q]
      BY <1>4, <2>2 DEF TerminalInv, WebTypeOK
    <3>2. request[q].token \in Tokens /\ request[q].token # t
      BY <1>7, <2>2, <3>1 DEF TerminalInv, AllReady, Ready
    <3>3. terminal'[request[q].token] = terminal[request[q].token]
      BY <1>4, <3>2 DEF TerminalInv, WebTypeOK
    <3> QED
      BY <3>1, <3>3 DEF TerminalInv, AllWhole
  <2> QED
    BY <2>1, <2>2
<1> QED
  BY <1>6, <1>8, <1>9 DEF TerminalInv

(* Only the holder's output grows, and its lines shrink as much.           *)
LEMMA RunStep ==
  ASSUME TerminalInv, NEW r \in Requests, RunLine(r)
  PROVE  TerminalInv'
<1> DEFINE t == request[r].token
           line == Head(request[r].lines)
           shown == [from |-> r, prompt |-> terminal[t].mode, line |-> line]
           held == Printed(terminal[t], shown, ModeAfter(terminal[t].mode, line))
           new == [request[r] EXCEPT !.lines = Tail(@)]
<1>1. /\ t \in Tokens /\ terminal[t] \in TerminalTypes /\ request[r] \in RequestTypes
      /\ request[r].stage = "lines" /\ request[r].lines # <<>>
      /\ Whole(r, terminal[t], request[r].lines)
  BY DEF RunLine, TerminalInv, WebTypeOK, AllReady, Ready, AllWhole
<1>2. /\ line \in Lines /\ Tail(request[r].lines) \in Seq(Lines)
      /\ Len(Tail(request[r].lines)) = Len(request[r].lines) - 1
  BY <1>1 DEF RequestTypes
<1>3. shown \in Outputs /\ ModeAfter(terminal[t].mode, line) \in Modes
  BY <1>1, <1>2 DEF Outputs, TerminalTypes, ModeAfter, Modes
<1>4. terminal' = [terminal EXCEPT ![t] = held] /\ request' = [request EXCEPT ![r] = new]
      /\ UNCHANGED <<sessions, fresh>>
  BY <1>1 DEF RunLine, To, TerminalTypes, Printed
<1> HIDE DEF line, shown
<1>5. /\ held \in TerminalTypes /\ held.holder = terminal[t].holder
      /\ held.out = Append(terminal[t].out, shown) /\ held.mode = ModeAfter(terminal[t].mode, line)
  BY <1>1, <1>3, PrintedTerminal
<1>6. /\ new \in RequestTypes /\ new.token = t /\ new.stage = "lines"
      /\ new.lines = Tail(request[r].lines)
  BY <1>1, <1>2 DEF RequestTypes
<1>7. shown.from = r /\ shown.prompt = terminal[t].mode /\ shown.line = line
  BY DEF shown
<1> HIDE DEF t, held, new
<1>8. Whole(r, held, new.lines)
  <2> DEFINE out == terminal[t].out
             n == Len(out)
  <2>0. out \in Seq(Outputs) /\ n \in Nat /\ (n # 0 => out # <<>>)
    BY <1>1 DEF TerminalTypes
  <2>1. /\ out \in Seq(Outputs) /\ n \in Nat
        /\ terminal[t].holder = r /\ n + Len(request[r].lines) = 2
        /\ \A i \in 1 .. n : out[i].from = r
        /\ \A i \in 1 .. n - 1 : out[i + 1].prompt = ModeAfter(out[i].prompt, out[i].line)
        /\ n # 0 => terminal[t].mode = ModeAfter(out[n].prompt, out[n].line)
    BY <1>1, <2>0 DEF Whole, Prompted
  <2>2. /\ Len(held.out) = n + 1 /\ held.out[n + 1] = shown
        /\ \A i \in 1 .. n : held.out[i] = out[i]
    BY <1>5, <2>1
  <2> HIDE DEF out, n
  <2>7. n \in Nat /\ Len(held.out) = n + 1
    BY <2>1, <2>2
  <2>3. ASSUME NEW i \in 1 .. Len(held.out) PROVE held.out[i].from = r
    <3>1. CASE i = n + 1
      BY <1>7, <2>2, <3>1
    <3>2. CASE i # n + 1
      <4>1. i \in 1 .. n
        BY <2>1, <2>2, <3>2
      <4> QED
        BY <2>1, <2>2, <4>1
    <3> QED
      BY <3>1, <3>2
  <2>4. Prompted(held.out)
    <3> SUFFICES ASSUME NEW i \in 1 .. Len(held.out) - 1
                 PROVE  held.out[i + 1].prompt = ModeAfter(held.out[i].prompt, held.out[i].line)
      BY DEF Prompted
    <3>1. CASE i = n
      <4>1. n # 0 /\ n \in 1 .. n
        BY <2>1, <2>2, <3>1
      <4>2. held.out[i + 1] = shown /\ held.out[i] = out[n]
        BY <2>2, <3>1, <4>1
      <4>3. shown.prompt = ModeAfter(out[n].prompt, out[n].line)
        BY <1>7, <2>1, <4>1
      <4> QED
        BY <4>2, <4>3
    <3>2. CASE i # n
      <4>1. i \in 1 .. n - 1 /\ i \in 1 .. n /\ i + 1 \in 1 .. n
        BY <2>7, <3>2
      <4>2. held.out[i + 1] = out[i + 1] /\ held.out[i] = out[i]
        BY <2>2, <4>1
      <4> QED
        BY <2>1, <4>1, <4>2
    <3> QED
      BY <3>1, <3>2
  <2>5. held.mode = ModeAfter(held.out[Len(held.out)].prompt, held.out[Len(held.out)].line)
    BY <1>5, <1>7, <2>2
  <2>6. Len(held.out) + Len(new.lines) = 2 /\ held.holder = r
    <3>1. Len(request[r].lines) \in Nat /\ Len(new.lines) = Len(request[r].lines) - 1
      BY <1>1, <1>2, <1>6 DEF RequestTypes
    <3>2. n \in Nat /\ n + Len(request[r].lines) = 2 /\ held.holder = r
      BY <1>5, <2>1
    <3>3. Len(held.out) = n + 1
      BY <2>2
    <3> QED
      BY <3>1, <3>2, <3>3
  <2> QED
    BY <2>3, <2>4, <2>5, <2>6 DEF Whole
<1>9. WebTypeOK'
  BY <1>1, <1>4, <1>5, <1>6 DEF TerminalInv, WebTypeOK, SessionsOK
<1>10. AllReady'
  BY <1>1, <1>4, <1>6 DEF TerminalInv, WebTypeOK, AllReady, Ready
<1>11. AllWhole'
  <2> SUFFICES ASSUME NEW q \in Requests, request'[q].stage = "lines"
               PROVE  Whole(q, terminal'[request'[q].token], request'[q].lines)
    BY DEF AllWhole
  <2>1. CASE q = r
    BY <1>1, <1>4, <1>6, <1>8, <2>1 DEF TerminalInv, WebTypeOK
  <2>2. CASE q # r
    <3>1. request'[q] = request[q]
      BY <1>4, <2>2 DEF TerminalInv, WebTypeOK
    <3>2. Whole(q, terminal[request[q].token], request[q].lines) /\ request[q].token \in Tokens
      BY <3>1 DEF TerminalInv, AllWhole, AllReady, Ready
    <3>3. request[q].token # t
      BY <1>1, <2>2, <3>2 DEF Whole
    <3>4. terminal'[request[q].token] = terminal[request[q].token]
      BY <1>4, <3>2, <3>3 DEF TerminalInv, WebTypeOK
    <3> QED
      BY <3>1, <3>2, <3>4
  <2> QED
    BY <2>1, <2>2
<1> QED
  BY <1>9, <1>10, <1>11 DEF TerminalInv

LEMMA ReplyStep ==
  ASSUME TerminalInv, NEW r \in Requests, Reply(r)
  PROVE  TerminalInv'
<1> DEFINE t == request[r].token
           held == [terminal[t] EXCEPT !.holder = Nobody]
<1>1. /\ t \in Tokens /\ terminal[t] \in TerminalTypes /\ terminal[t].holder = r
  BY DEF Reply, TerminalInv, WebTypeOK, AllReady, Ready, AllWhole, Whole
<1>2. held \in TerminalTypes
  BY <1>1 DEF TerminalTypes
<1>3. terminal' = [terminal EXCEPT ![t] = held] /\ request' = [request EXCEPT ![r] = Idle]
      /\ UNCHANGED <<sessions, fresh>>
  BY <1>1 DEF Reply, To, TerminalTypes
<1> HIDE DEF t, held
<1>4. WebTypeOK'
  BY <1>1, <1>2, <1>3, IdleIsTyped DEF TerminalInv, WebTypeOK, SessionsOK
<1>5. AllReady'
  BY <1>3, IdleIsTyped DEF TerminalInv, WebTypeOK, AllReady
<1>6. AllWhole'
  <2> SUFFICES ASSUME NEW q \in Requests, request'[q].stage = "lines"
               PROVE  Whole(q, terminal'[request'[q].token], request'[q].lines)
    BY DEF AllWhole
  <2>1. q # r /\ request'[q] = request[q]
    BY <1>3, IdleIsTyped DEF TerminalInv, WebTypeOK
  <2>2. Whole(q, terminal[request[q].token], request[q].lines) /\ request[q].token \in Tokens
    BY <2>1 DEF TerminalInv, AllWhole, AllReady, Ready
  <2>3. request[q].token # t
    BY <1>1, <2>1, <2>2 DEF Whole
  <2>4. terminal'[request[q].token] = terminal[request[q].token]
    BY <1>3, <2>2, <2>3 DEF TerminalInv, WebTypeOK
  <2> QED
    BY <2>1, <2>2, <2>4
<1> QED
  BY <1>4, <1>5, <1>6 DEF TerminalInv

LEMMA WorldSteps ==
  ASSUME TerminalInv,
         Tick \/ (\E new \in SUBSET Users : ChangeUsers(new)) \/ UNCHANGED webVars
  PROVE  TerminalInv'
<1>1. UNCHANGED <<terminal, request>>
  BY DEF Tick, ChangeUsers, webVars
<1>2. SessionsOK'
  BY DEF Tick, ChangeUsers, webVars, SessionsOK, TerminalInv, WebTypeOK
<1> QED
  BY <1>1, <1>2, SilentStep DEF TerminalInv, WebTypeOK

LEMMA InitTerminals == WebInit => TerminalInv
<1> SUFFICES ASSUME WebInit PROVE TerminalInv
  OBVIOUS
<1>1. SessionsOK
  BY DEF WebInit, SessionsOK
<1>2. terminal \in [Tokens -> TerminalTypes]
  BY DEF WebInit, NewTerminal, TerminalTypes, Modes
<1>3. request \in [Requests -> RequestTypes] /\ AllReady /\ AllWhole
  BY IdleIsTyped DEF WebInit, AllReady, AllWhole
<1> QED
  BY <1>1, <1>2, <1>3 DEF TerminalInv, WebTypeOK

LEMMA TerminalStep ==
  ASSUME TerminalInv, [WebNext]_webVars
  PROVE  TerminalInv'
<1>1. ASSUME NEW r \in Requests, NEW u \in Users, NEW right \in BOOLEAN, Login(r, u, right)
      PROVE  TerminalInv'
  BY <1>1, LoginStep
<1>2. ASSUME NEW r \in Requests, LoginRefused(r) PROVE TerminalInv'
  BY <1>2, PasswordSteps
<1>3. ASSUME NEW r \in Requests, NEW t \in Tokens, NEW stage \in {"logout", "stream"},
             Arrive(r, t, stage, <<>>)
      PROVE  TerminalInv'
  <2>1. <<>> \in Seq(Lines)
    OBVIOUS
  <2> QED
    BY <1>3, <2>1, ArriveStep
<1>4. ASSUME NEW r \in Requests, NEW t \in Tokens, NEW lines \in Texts, Arrive(r, t, "cli", lines)
      PROVE  TerminalInv'
  BY <1>4, TextsAreTyped, ArriveStep
<1>5. ASSUME NEW r \in Requests, NEW t \in Tokens, ArriveLate(r, t) \/ LoggedIn(r, t)
      PROVE  TerminalInv'
  BY <1>5, SessionSteps
<1>6. ASSUME NEW r \in Requests, ReadUsers(r) \/ WrongPassword(r) \/ Logout(r) \/ HangUp(r)
      PROVE  TerminalInv'
  BY <1>6, PasswordSteps
<1>7. ASSUME NEW r \in Requests, LockTerminal(r) \/ RunLine(r) \/ Reply(r)
      PROVE  TerminalInv'
  BY <1>7, LockStep, RunStep, ReplyStep
<1>8. ASSUME Tick \/ (\E new \in SUBSET Users : ChangeUsers(new)) \/ UNCHANGED webVars
      PROVE  TerminalInv'
  BY <1>8, WorldSteps
<1>9. ASSUME NEW r \in Requests, Work(r) PROVE TerminalInv'
  BY <1>5, <1>6, <1>7, <1>9 DEF Work
<1> QED
  BY <1>1, <1>2, <1>3, <1>4, <1>5, <1>8, <1>9 DEF WebNext

(* The requests of a session take its terminal in turn, and what each has  *)
(* printed is its own.                                                     *)
THEOREM TerminalInvariant == WebSpec => []TerminalInv
<1>1. WebInit => TerminalInv
  BY InitTerminals
<1>2. TerminalInv /\ [WebNext]_webVars => TerminalInv'
  BY TerminalStep
<1> QED
  BY <1>1, <1>2, PTL DEF WebSpec

(* A page is sent what its own lines have printed, all of it, each line    *)
(* after the prompt that the one before it has led to, however many pages  *)
(* of a session send lines at once (cliExec under the terminal's mutex).   *)
THEOREM RepliesAreTheirOwn == WebSpec => []RepliesAreWhole
<1>1. TerminalInv => RepliesAreWhole
  <2> SUFFICES ASSUME TerminalInv, NEW r \in Requests, request[r].stage = "lines"
               PROVE  LET out == terminal[request[r].token].out IN
                      /\ \A i \in DOMAIN out : out[i].from = r
                      /\ \A i \in 1 .. Len(out) - 1 :
                           out[i + 1].prompt = ModeAfter(out[i].prompt, out[i].line)
                      /\ Len(out) + Len(request[r].lines) = 2
    BY DEF RepliesAreWhole
  <2> DEFINE out == terminal[request[r].token].out
  <2>1. Whole(r, terminal[request[r].token], request[r].lines)
    BY DEF TerminalInv, AllWhole
  <2>2. out \in Seq(Outputs)
    BY DEF TerminalInv, WebTypeOK, AllReady, Ready, TerminalTypes
  <2>3. DOMAIN out = 1 .. Len(out)
    BY <2>2
  <2> QED
    BY <2>1, <2>3 DEF Whole, Prompted
<1> QED
  BY <1>1, TerminalInvariant, PTL

-----------------------------------------------------------------------------
(* The throttle                                                            *)

(* The requests of an address, and those that have been let in and have    *)
(* not yet been told whether the password is right.                        *)
From(a) == {r \in Requests : Address[r] = a}
Trying(a) == {r \in From(a) : request[r].stage \in {"login", "hash"}}

RecordsOK ==
  /\ attempts \in [Addresses -> Seq(Nat)]
  /\ guesses \in [Addresses -> Seq(Nat)]

(* What is on record of an address is what it has tried, also when old     *)
(* entries have been dropped from the record alone; and there is room in   *)
(* the bound for everyone who is trying.                                   *)
Bounded(a) ==
  /\ Recent(guesses[a]) = Recent(attempts[a])
  /\ Len(Recent(attempts[a])) + Cardinality(Trying(a)) < Limit + Cardinality(From(a))

ThrottleInv == RecordsOK /\ \A a \in Addresses : Bounded(a)

LEMMA RecentOnly ==
  ASSUME NEW q \in Seq(Nat)
  PROVE  /\ Recent(q) \in Seq(Nat) /\ Len(Recent(q)) <= Len(q)
         /\ Recent(Recent(q)) = Recent(q)
BY OnlyIsTyped, OnlyAgain DEF Recent

LEMMA RecentCounted ==
  ASSUME NEW q \in Seq(Nat)
  PROVE  LET new == Append(Recent(q), 0) IN
         new \in Seq(Nat) /\ Len(new) = Len(Recent(q)) + 1 /\ Recent(new) = new
<1> DEFINE new == Append(Recent(q), 0)
<1>1. Recent(q) \in Seq(Nat) /\ 0 \in 0 .. Minute - 1
  BY RecentOnly
<1>2. new \in Seq(Nat) /\ Len(new) = Len(Recent(q)) + 1
  BY <1>1
<1>3. \A i \in 1 .. Len(Recent(q)) : Recent(q)[i] \in 0 .. Minute - 1
  BY OnlyWanted DEF Recent
<1>4. \A i \in 1 .. Len(new) : new[i] \in 0 .. Minute - 1
  BY <1>1, <1>3
<1> HIDE DEF new
<1>5. Only(new, 0 .. Minute - 1) = new
  BY <1>2, <1>4, OnlyAll
<1>6. Recent(new) = new
  BY <1>5 DEF Recent
<1> QED
  BY <1>2, <1>6 DEF new

LEMMA RecentAged ==
  ASSUME NEW q \in Seq(Nat)
  PROVE  LET aged == Older(Recent(q)) IN
         aged \in Seq(Nat) /\ Len(Recent(aged)) <= Len(Recent(q))
<1>1. Recent(q) \in Seq(Nat)
  BY RecentOnly
<1>2. Older(Recent(q)) \in Seq(Nat) /\ Len(Older(Recent(q))) = Len(Recent(q))
  BY <1>1 DEF Older
<1>3. Len(Recent(Older(Recent(q)))) \in Nat
      /\ Len(Recent(Older(Recent(q)))) <= Len(Older(Recent(q)))
  BY <1>2, RecentOnly
<1> QED
  BY <1>2, <1>3

LEMMA TryingIsCounted ==
  ASSUME NEW a
  PROVE  /\ IsFiniteSet(From(a)) /\ Cardinality(From(a)) \in Nat
         /\ IsFiniteSet(Trying(a)) /\ Cardinality(Trying(a)) \in Nat
         /\ Cardinality(Trying(a)) <= Cardinality(From(a))
<1>1. IsFiniteSet(From(a)) /\ Trying(a) \subseteq From(a)
  BY FS_Subset DEF From, Trying
<1>2. IsFiniteSet(Trying(a)) /\ Cardinality(Trying(a)) <= Cardinality(From(a))
  BY <1>1, FS_Subset
<1> QED
  BY <1>1, <1>2, FS_CardinalityType

(* The records stay and nobody else is let in.                             *)
LEMMA RecordStays ==
  ASSUME ThrottleInv, UNCHANGED <<attempts, guesses>>,
         \A a \in Addresses : Trying(a)' \subseteq Trying(a)
  PROVE  ThrottleInv'
<1>1. RecordsOK'
  BY DEF ThrottleInv, RecordsOK
<1>2. ASSUME NEW a \in Addresses PROVE Bounded(a)'
  <2>1. Cardinality(Trying(a)') \in Nat /\ Cardinality(Trying(a)') <= Cardinality(Trying(a))
    BY TryingIsCounted, FS_Subset, FS_CardinalityType
  <2>2. Bounded(a) /\ attempts[a] \in Seq(Nat)
    BY DEF ThrottleInv, RecordsOK
  <2>3. Len(Recent(attempts[a])) \in Nat
    BY <2>2, RecentOnly
  <2>4. From(a)' = From(a) /\ Recent(attempts[a])' = Recent(attempts[a])
        /\ Recent(guesses[a])' = Recent(guesses[a])
    BY DEF From, Recent
  <2> QED
    BY <2>1, <2>2, <2>3, <2>4, TryingIsCounted DEF Bounded
<1> QED
  BY <1>1, <1>2 DEF ThrottleInv

(* A request of r that is not let in by this step.                         *)
LEMMA NobodyLetIn ==
  ASSUME TerminalInv, NEW r \in Requests, NEW new, To(r, new),
         new.stage \in {"login", "hash"} => request[r].stage \in {"login", "hash"}
  PROVE  \A a \in Addresses : Trying(a)' \subseteq Trying(a)
<1>1. request' = [request EXCEPT ![r] = new] /\ DOMAIN request = Requests
  BY DEF To, TerminalInv, WebTypeOK
<1> QED
  BY <1>1 DEF Trying, From

(* Dropping old entries from the record.                                   *)
Pruned(a) == attempts' = [attempts EXCEPT ![a] = Recent(@)]

LEMMA PrunedRecord ==
  ASSUME ThrottleInv, NEW b \in Addresses, Pruned(b), UNCHANGED guesses
  PROVE  /\ RecordsOK'
         /\ \A a \in Addresses : /\ Recent(attempts[a])' = Recent(attempts[a])
                                 /\ Recent(guesses[a])' = Recent(guesses[a])
<1>1. attempts \in [Addresses -> Seq(Nat)] /\ guesses \in [Addresses -> Seq(Nat)]
  BY DEF ThrottleInv, RecordsOK
<1>2. Recent(attempts[b]) \in Seq(Nat) /\ Recent(Recent(attempts[b])) = Recent(attempts[b])
  BY <1>1, RecentOnly
<1>3. attempts' = [attempts EXCEPT ![b] = Recent(attempts[b])]
  BY DEF Pruned
<1>4. attempts'[b] = Recent(attempts[b]) /\ \A a \in Addresses : a # b => attempts'[a] = attempts[a]
  BY <1>1, <1>3
<1>5. RecordsOK'
  BY <1>1, <1>2, <1>3 DEF RecordsOK
<1>6. ASSUME NEW a \in Addresses
      PROVE  Recent(attempts'[a]) = Recent(attempts[a])
  BY <1>2, <1>4
<1> QED
  BY <1>5, <1>6 DEF Recent

LEMMA LoginCounts ==
  ASSUME TerminalInv, ThrottleInv, NEW r \in Requests, NEW u \in Users,
         NEW right \in BOOLEAN, Login(r, u, right)
  PROVE  ThrottleInv'
<1> DEFINE b == Address[r]
           new == [Idle EXCEPT !.stage = "login", !.user = u, !.right = right]
<1>1. b \in Addresses /\ Pruned(b) /\ UNCHANGED guesses /\ To(r, new)
      /\ Len(Recent(attempts[b])) < Limit
  <2>1. Len(Recent(attempts[b])) \in Nat
    BY RecentOnly DEF ThrottleInv, RecordsOK, Addresses
  <2>2. ~Closed(b)
    BY DEF Login
  <2> QED
    BY <2>1, <2>2 DEF Login, Pruned, Addresses, Closed
<1>2. /\ RecordsOK'
      /\ \A a \in Addresses : /\ Recent(attempts[a])' = Recent(attempts[a])
                              /\ Recent(guesses[a])' = Recent(guesses[a])
  BY <1>1, PrunedRecord
<1>3. request' = [request EXCEPT ![r] = new] /\ DOMAIN request = Requests
  BY <1>1 DEF To, TerminalInv, WebTypeOK
<1> HIDE DEF b, new
<1>4. ASSUME NEW a \in Addresses PROVE Bounded(a)'
  <2>1. /\ Bounded(a) /\ Len(Recent(attempts[a])) \in Nat /\ From(a)' = From(a)
    BY RecentOnly DEF ThrottleInv, RecordsOK, From
  <2>2. /\ Cardinality(Trying(a)') \in Nat /\ Cardinality(From(a)) \in Nat
        /\ Cardinality(Trying(a)') <= Cardinality(From(a))
    <3>1. IsFiniteSet(From(a)) /\ Cardinality(From(a)) \in Nat
      BY TryingIsCounted
    <3>2. Trying(a)' \subseteq From(a)
      BY DEF Trying, From
    <3> QED
      BY <3>1, <3>2, FS_Subset, FS_CardinalityType
  <2>3. CASE a = b
    BY <1>1, <1>2, <2>1, <2>2, <2>3 DEF Bounded
  <2>4. CASE a # b
    <3>1. Trying(a)' = Trying(a)
      BY <1>3, <2>4 DEF Trying, From, b
    <3> QED
      BY <1>2, <2>1, <3>1 DEF Bounded
  <2> QED
    BY <2>3, <2>4
<1> QED
  BY <1>2, <1>4 DEF ThrottleInv

(* A wrong password is counted when its request is let go.                 *)
LEMMA WrongPasswordCounts ==
  ASSUME TerminalInv, ThrottleInv, NEW r \in Requests, WrongPassword(r)
  PROVE  ThrottleInv'
<1> DEFINE b == Address[r]
           tried == Append(Recent(attempts[b]), 0)
<1>0. attempts \in [Addresses -> Seq(Nat)] /\ guesses \in [Addresses -> Seq(Nat)] /\ b \in Addresses
  BY DEF ThrottleInv, RecordsOK, Addresses
<1>1. /\ tried \in Seq(Nat) /\ Len(tried) = Len(Recent(attempts[b])) + 1
      /\ Recent(tried) = tried /\ Len(Recent(attempts[b])) \in Nat
  BY <1>0, RecentCounted, RecentOnly
<1>2. Recent(guesses[b]) = Recent(attempts[b])
  BY <1>0 DEF ThrottleInv, Bounded
<1>3. attempts' = [attempts EXCEPT ![b] = tried] /\ guesses' = [guesses EXCEPT ![b] = tried]
  BY <1>0, <1>2 DEF WrongPassword, Count
<1>4. /\ request' = [request EXCEPT ![r] = Idle] /\ DOMAIN request = Requests
      /\ Idle.stage = "idle" /\ request[r].stage = "hash"
  BY DEF WrongPassword, To, TerminalInv, WebTypeOK, Idle
<1> HIDE DEF tried
<1>5. RecordsOK'
  BY <1>0, <1>1, <1>3 DEF RecordsOK
<1>6. ASSUME NEW a \in Addresses PROVE Bounded(a)'
  <2>1. /\ Bounded(a) /\ From(a)' = From(a)
    BY DEF ThrottleInv, From
  <2>2. CASE a = b
    <3>1. /\ attempts'[a] = tried /\ guesses'[a] = tried
      BY <1>0, <1>3, <2>2
    <3>2. r \in Trying(a) /\ Trying(a)' = Trying(a) \ {r}
      BY <1>4, <2>2 DEF Trying, From
    <3>3. Cardinality(Trying(a)') = Cardinality(Trying(a)) - 1
      BY <3>2, TryingIsCounted, FS_RemoveElement, ZenonT(30)
    <3>4. Recent(attempts[a])' = tried /\ Recent(guesses[a])' = tried
      BY <1>1, <3>1 DEF Recent
    <3>5. Cardinality(Trying(a)) \in Nat /\ Cardinality(From(a)) \in Nat
      BY TryingIsCounted
    <3> QED
      BY <1>1, <2>1, <2>2, <3>3, <3>4, <3>5 DEF Bounded
  <2>3. CASE a # b
    <3>1. attempts'[a] = attempts[a] /\ guesses'[a] = guesses[a]
      BY <1>0, <1>3, <2>3
    <3>2. Trying(a)' = Trying(a)
      BY <1>4, <2>3 DEF Trying, From
    <3>3. Recent(attempts[a])' = Recent(attempts[a]) /\ Recent(guesses[a])' = Recent(guesses[a])
      BY <3>1 DEF Recent
    <3> QED
      BY <2>1, <3>2, <3>3 DEF Bounded
  <2> QED
    BY <2>2, <2>3
<1> QED
  BY <1>5, <1>6 DEF ThrottleInv

LEMMA TickCounts ==
  ASSUME ThrottleInv, Tick
  PROVE  ThrottleInv'
<1>1. attempts \in [Addresses -> Seq(Nat)] /\ guesses \in [Addresses -> Seq(Nat)]
  BY DEF ThrottleInv, RecordsOK
<1>2. /\ attempts' = [a \in Addresses |-> Older(Recent(attempts[a]))]
      /\ guesses' = [a \in Addresses |-> Older(Recent(guesses[a]))]
      /\ UNCHANGED request
  BY DEF Tick
<1>3. \A a \in Addresses : /\ Older(Recent(attempts[a])) \in Seq(Nat)
                           /\ Older(Recent(guesses[a])) \in Seq(Nat)
  BY <1>1, RecentAged
<1>4. RecordsOK'
  BY <1>2, <1>3 DEF RecordsOK
<1>5. ASSUME NEW a \in Addresses PROVE Bounded(a)'
  <2>1. Bounded(a) /\ From(a)' = From(a) /\ Trying(a)' = Trying(a)
    BY <1>2 DEF ThrottleInv, From, Trying
  <2>2. /\ attempts'[a] = Older(Recent(attempts[a]))
        /\ guesses'[a] = Older(Recent(attempts[a]))
    BY <1>2, <2>1 DEF Bounded
  <2>3. /\ Len(Recent(attempts'[a])) \in Nat /\ Len(Recent(attempts[a])) \in Nat
        /\ Len(Recent(attempts'[a])) <= Len(Recent(attempts[a]))
    <3>1. attempts[a] \in Seq(Nat) /\ attempts'[a] \in Seq(Nat)
      BY <1>1, <1>4 DEF RecordsOK
    <3>2. Recent(attempts[a]) \in Seq(Nat) /\ Recent(attempts'[a]) \in Seq(Nat)
      BY <3>1, RecentOnly
    <3>3. Len(Recent(attempts'[a])) <= Len(Recent(attempts[a]))
      BY <2>2, <3>1, RecentAged
    <3> QED
      BY <3>2, <3>3
  <2>4. Recent(guesses'[a]) = Recent(attempts'[a])
    BY <2>2
  <2>5. Cardinality(Trying(a)) \in Nat /\ Cardinality(From(a)) \in Nat
    BY TryingIsCounted
  <2>6. Recent(attempts[a])' = Recent(attempts'[a]) /\ Recent(guesses[a])' = Recent(guesses'[a])
    BY DEF Recent
  <2> QED
    BY <2>1, <2>3, <2>4, <2>5, <2>6 DEF Bounded
<1> QED
  BY <1>4, <1>5 DEF ThrottleInv

LEMMA RefusedCounts ==
  ASSUME ThrottleInv, NEW r \in Requests, LoginRefused(r)
  PROVE  ThrottleInv'
<1>1. Address[r] \in Addresses /\ Pruned(Address[r]) /\ UNCHANGED <<guesses, request>>
  BY DEF LoginRefused, Pruned, Addresses
<1>2. /\ RecordsOK'
      /\ \A a \in Addresses : /\ Recent(attempts[a])' = Recent(attempts[a])
                              /\ Recent(guesses[a])' = Recent(guesses[a])
  BY <1>1, PrunedRecord
<1>3. ASSUME NEW a \in Addresses PROVE Bounded(a)'
  <2>1. Bounded(a) /\ From(a)' = From(a) /\ Trying(a)' = Trying(a)
    BY <1>1 DEF ThrottleInv, From, Trying
  <2> QED
    BY <1>2, <2>1 DEF Bounded
<1> QED
  BY <1>2, <1>3 DEF ThrottleInv

(* Everything else that a request does.                                    *)
LEMMA SessionCounts ==
  ASSUME TerminalInv, ThrottleInv, NEW r \in Requests, NEW t \in Tokens, NEW stage, NEW lines,
         stage \notin {"login", "hash"},
         LoggedIn(r, t) \/ Arrive(r, t, stage, lines) \/ ArriveLate(r, t)
  PROVE  ThrottleInv'
<1>1. CASE LoggedIn(r, t)
  <2>1. To(r, Idle) /\ UNCHANGED <<attempts, guesses>> /\ Idle.stage = "idle"
    BY <1>1 DEF LoggedIn, Idle
  <2> QED
    BY <2>1, NobodyLetIn, RecordStays
<1>2. CASE Arrive(r, t, stage, lines)
  <2> DEFINE new == [Idle EXCEPT !.stage = stage, !.user = sessions[t].user,
                                 !.token = t, !.lines = lines]
  <2>1. To(r, new) /\ UNCHANGED <<attempts, guesses>>
    BY <1>2 DEF Arrive
  <2>2. new.stage = stage
    BY DEF Idle
  <2> HIDE DEF new
  <2> QED
    BY <2>1, <2>2, NobodyLetIn, RecordStays
<1>3. CASE ArriveLate(r, t)
  <2>1. UNCHANGED <<attempts, guesses, request>>
    BY <1>3 DEF ArriveLate
  <2> QED
    BY <2>1, RecordStays DEF Trying, From
<1> QED
  BY <1>1, <1>2, <1>3

LEMMA RequestCounts ==
  ASSUME TerminalInv, ThrottleInv, NEW r \in Requests,
         ReadUsers(r) \/ Logout(r) \/ LockTerminal(r) \/ RunLine(r) \/ Reply(r) \/ HangUp(r)
  PROVE  ThrottleInv'
<1>0. Idle.stage = "idle" /\ request[r] \in RequestTypes
  BY DEF Idle, TerminalInv, WebTypeOK
<1>1. CASE Logout(r) \/ Reply(r) \/ HangUp(r)
  <2>1. To(r, Idle) /\ UNCHANGED <<attempts, guesses>>
    BY <1>1 DEF Logout, Reply, HangUp
  <2> QED
    BY <1>0, <2>1, NobodyLetIn, RecordStays
<1>2. CASE ReadUsers(r)
  <2> DEFINE hashed == [request[r] EXCEPT !.stage = "hash",
                                          !.right = @ /\ request[r].user \in users]
             new == IF users = {} THEN Idle ELSE hashed
  <2>1. To(r, new) /\ request[r].stage = "login" /\ UNCHANGED <<attempts, guesses>>
    BY <1>2 DEF ReadUsers
  <2> HIDE DEF new
  <2> QED
    BY <2>1, NobodyLetIn, RecordStays
<1>3. CASE LockTerminal(r)
  <2> DEFINE new == [request[r] EXCEPT !.stage = "lines"]
  <2>1. To(r, new) /\ UNCHANGED <<attempts, guesses>>
    BY <1>3 DEF LockTerminal
  <2>2. new.stage = "lines"
    BY <1>0 DEF RequestTypes
  <2> HIDE DEF new
  <2> QED
    BY <2>1, <2>2, NobodyLetIn, RecordStays
<1>4. CASE RunLine(r)
  <2> DEFINE new == [request[r] EXCEPT !.lines = Tail(@)]
  <2>1. To(r, new) /\ UNCHANGED <<attempts, guesses>>
    BY <1>4 DEF RunLine
  <2>2. new.stage = request[r].stage
    BY <1>0 DEF RequestTypes
  <2> HIDE DEF new
  <2> QED
    BY <2>1, <2>2, NobodyLetIn, RecordStays
<1> QED
  BY <1>1, <1>2, <1>3, <1>4

LEMMA ThrottleStarts == WebInit => ThrottleInv
<1> SUFFICES ASSUME WebInit PROVE ThrottleInv
  OBVIOUS
<1> DEFINE none == <<>>
<1>1. attempts = [a \in Addresses |-> none] /\ guesses = attempts /\ none \in Seq(Nat)
      /\ Len(none) = 0 /\ \A r \in Requests : request[r].stage = "idle"
  BY DEF WebInit, Idle
<1> HIDE DEF none
<1>2. RecordsOK
  BY <1>1 DEF RecordsOK
<1>3. ASSUME NEW a \in Addresses PROVE Bounded(a)
  <2>1. attempts[a] = none /\ guesses[a] = none
    BY <1>1
  <2>2. Len(Recent(none)) \in Nat /\ Len(Recent(none)) <= 0
    <3>1. none \in Seq(Nat) /\ Len(none) = 0
      BY <1>1
    <3>2. Recent(none) \in Seq(Nat) /\ Len(Recent(none)) <= Len(none)
      BY <3>1, RecentOnly
    <3> QED
      BY <3>1, <3>2
  <2>3. Trying(a) = {}
    BY <1>1 DEF Trying, From
  <2>4. Cardinality(Trying(a)) = 0
    BY <2>3, FS_EmptySet
  <2>5. PICK r \in Requests : Address[r] = a
    BY DEF Addresses
  <2>6. Cardinality(From(a)) \in Nat
    BY TryingIsCounted
  <2> QED
    BY <2>1, <2>2, <2>4, <2>6 DEF Bounded
<1> QED
  BY <1>2, <1>3 DEF ThrottleInv

LEMMA ThrottleStep ==
  ASSUME TerminalInv, ThrottleInv, [WebNext]_webVars
  PROVE  ThrottleInv'
<1>1. ASSUME NEW r \in Requests, NEW u \in Users, NEW right \in BOOLEAN, Login(r, u, right)
      PROVE  ThrottleInv'
  BY <1>1, LoginCounts
<1>2. ASSUME NEW r \in Requests, LoginRefused(r) PROVE ThrottleInv'
  BY <1>2, RefusedCounts
<1>3. ASSUME NEW r \in Requests, NEW t \in Tokens, NEW stage \in {"logout", "stream", "cli"},
             NEW lines, Arrive(r, t, stage, lines)
      PROVE  ThrottleInv'
  BY <1>3, SessionCounts
<1>4. ASSUME NEW r \in Requests, NEW t \in Tokens, ArriveLate(r, t) \/ LoggedIn(r, t)
      PROVE  ThrottleInv'
  <2>1. "logout" \notin {"login", "hash"}
    OBVIOUS
  <2> QED
    BY <1>4, <2>1, SessionCounts
<1>5. ASSUME NEW r \in Requests,
             ReadUsers(r) \/ Logout(r) \/ LockTerminal(r) \/ RunLine(r) \/ Reply(r) \/ HangUp(r)
      PROVE  ThrottleInv'
  BY <1>5, RequestCounts
<1>6. ASSUME NEW r \in Requests, WrongPassword(r) PROVE ThrottleInv'
  BY <1>6, WrongPasswordCounts
<1>7. CASE Tick
  BY <1>7, TickCounts
<1>8. CASE (\E new \in SUBSET Users : ChangeUsers(new)) \/ UNCHANGED webVars
  <2>1. UNCHANGED <<attempts, guesses, request>>
    BY <1>8 DEF ChangeUsers, webVars
  <2> QED
    BY <2>1, RecordStays DEF Trying, From
<1>9. ASSUME NEW r \in Requests, Work(r) PROVE ThrottleInv'
  BY <1>4, <1>5, <1>6, <1>9 DEF Work
<1> QED
  BY <1>1, <1>2, <1>3, <1>4, <1>7, <1>8, <1>9 DEF WebNext

(* Logins that have yet to fail or be counted were let in when there was   *)
(* room for them (login and throttled).                                    *)
THEOREM ThrottleInvariant == WebSpec => []ThrottleInv
<1>1. WebInit => ThrottleInv
  BY ThrottleStarts
<1>2. TerminalInv /\ ThrottleInv /\ [WebNext]_webVars => ThrottleInv'
  BY ThrottleStep
<1> QED
  BY <1>1, <1>2, TerminalInvariant, PTL DEF WebSpec

(* An address tries fewer wrong passwords within a minute than the limit   *)
(* and the requests that it has served at the same time together, in       *)
(* whatever order the logins are let in, hashed and counted (login and     *)
(* throttled).                                                             *)
THEOREM GuessesAreBounded == WebSpec => []GuessesAreFew
<1>1. ThrottleInv => GuessesAreFew
  <2> SUFFICES ASSUME ThrottleInv, NEW a \in Addresses
               PROVE  Len(Recent(guesses[a])) < Limit + Cardinality({r \in Requests : Address[r] = a})
    BY DEF GuessesAreFew
  <2>1. Bounded(a) /\ attempts[a] \in Seq(Nat)
    BY DEF ThrottleInv, RecordsOK
  <2>2. Len(Recent(attempts[a])) \in Nat
    BY <2>1, RecentOnly
  <2> QED
    BY <2>1, <2>2, TryingIsCounted DEF Bounded, From
<1> QED
  BY <1>1, ThrottleInvariant, PTL
=============================================================================
