---------------------------- MODULE BrokerSession ----------------------------
(***************************************************************************)
(* The broker session of the trader: _initialize_api and                   *)
(* _check_mid_session_auth of main.py over validate_oauth_session and      *)
(* exchange_auth_code of api_helper.py.  The broker honours the last token *)
(* it issued until it expires; any answer of it may be lost.               *)
(***************************************************************************)
EXTENDS Integers, Sequences

CONSTANTS
  Attempts,        \* automated attempts of a login (two in the code)
  MaxTokens        \* bound: tokens ever issued

ASSUME SessionAssumption == Attempts \in Nat \ {0} /\ MaxTokens \in Nat

VARIABLES
  oauth,           \* _is_oauth_configured
  issued, honoured,\* the broker: tokens issued, and the one in force or 0
  header, jkey,    \* the bearer header and the susertoken of the client
  creds,           \* Access_token in cred.yml, Broken after a torn write
  login,           \* what the trader is doing
  attempted,       \* reauth_state["attempted"]
  exchanges,       \* history: code exchanges tried by this process
  passed           \* history: the tokens that passed a validation

sessionVars == <<oauth, issued, honoured, header, jkey, creds, login, attempted,
                 exchanges, passed>>

Broken == -1
NoToken == 0

At(place) == [at |-> place]
Code(phase, try) == [at |-> "code", phase |-> phase, try |-> try]
Validate(phase, try) == [at |-> "probe", phase |-> phase, try |-> try, seen |-> <<>>]

SessionInit ==
  /\ oauth \in BOOLEAN
  /\ issued \in {0, 1} /\ honoured \in {0, issued}
  /\ creds = issued
  /\ header = NoToken /\ jkey = NoToken
  /\ login = At("start") /\ attempted = FALSE
  /\ exchanges = 0 /\ passed = {issued}

(* The broker drops the token: at night, or when another program logs in.   *)
Expire ==
  /\ honoured' = NoToken
  /\ UNCHANGED <<oauth, issued, header, jkey, creds, login, attempted, exchanges, passed>>

Goto(place) ==
  /\ login' = place
  /\ UNCHANGED <<oauth, issued, honoured, header, jkey, creds, attempted, exchanges, passed>>

-----------------------------------------------------------------------------
(* _initialize_api                                                         *)
LegacyLogin ==
  /\ login = At("start") /\ ~oauth /\ creds # Broken
  /\ \/ /\ issued < MaxTokens
        /\ issued' = issued + 1 /\ honoured' = issued + 1 /\ jkey' = issued + 1
        /\ login' = At("trading")
     \/ login' = At("dead") /\ UNCHANGED <<issued, honoured, jkey>>
  /\ UNCHANGED <<oauth, header, creds, attempted, exchanges, passed>>

StartBroken == login = At("start") /\ creds = Broken /\ Goto(At("dead"))

StartCached ==
  /\ login = At("start") /\ oauth /\ creds > NoToken
  /\ header' = creds
  /\ login' = Validate("cached", 1)
  /\ UNCHANGED <<oauth, issued, honoured, jkey, creds, attempted, exchanges, passed>>

StartFresh ==
  login = At("start") /\ oauth /\ creds = NoToken /\ Goto(Code("auto", 1))

(* Where a login goes when a code, an exchange or a validation has failed.  *)
AfterFailure(phase, try) ==
  CASE phase = "cached" -> Code("auto", 1)
    [] phase = "auto" /\ try < Attempts -> Code("auto", try + 1)
    [] phase = "auto" /\ try >= Attempts -> Code("manual", 1)
    [] OTHER -> At("dead")

(* No code was captured; what is typed at the prompt is sent as it is.      *)
NoCode ==
  /\ login.at = "code" /\ login.phase # "manual"
  /\ Goto(AfterFailure(login.phase, login.try))

ExchangeFails ==
  /\ login.at = "code"
  /\ login' = AfterFailure(login.phase, login.try)
  /\ exchanges' = exchanges + 1
  /\ UNCHANGED <<oauth, issued, honoured, header, jkey, creds, attempted, passed>>

(* The header is set at once; the answer may come without a susertoken, and *)
(* then the old one stays.                                                  *)
ExchangeWorks ==
  /\ login.at = "code" /\ issued < MaxTokens
  /\ issued' = issued + 1 /\ honoured' = issued + 1
  /\ header' = issued + 1 /\ jkey' \in {jkey, issued + 1}
  /\ login' = Validate(login.phase, login.try)
  /\ exchanges' = exchanges + 1
  /\ UNCHANGED <<oauth, creds, attempted, passed>>

SaveInAutoOnly ==
  /\ login.at = "save"
  /\ creds' = IF login.phase = "reauth" THEN creds ELSE header
  /\ login' = At("trading")
  /\ UNCHANGED <<oauth, issued, honoured, header, jkey, attempted, exchanges, passed>>

SaveCreds ==
  /\ login.at = "save"
  /\ creds' = header
  /\ login' = At("trading")
  /\ UNCHANGED <<oauth, issued, honoured, header, jkey, attempted, exchanges, passed>>

-----------------------------------------------------------------------------
(* validate_oauth_session: two probes.  A refused header is tried again     *)
(* with the susertoken.  Whatever the token, a probe may find the broker    *)
(* unreachable (no connection, or a time-out), be refused in words (401, or *)
(* a stat that is not Ok), or fail for another reason: HTTP 5xx, an empty   *)
(* or unreadable body, another error of the request; without a header it    *)
(* fails before anything is sent.  Only the first kind is called transient. *)
Good(token) == token # NoToken /\ token = honoured
ProbeOutcomes ==
  {"failed"}
    \union (IF header # NoToken THEN {"unreachable", "refused"} ELSE {})
    \union (IF header # NoToken /\ (Good(header) \/ Good(jkey)) THEN {"ok"} ELSE {})

Validated ==
  /\ passed' = passed \union {header}
  /\ login' = IF login.phase \in {"cached", "gate"} THEN At("trading")
              ELSE [at |-> "save", phase |-> login.phase]
  /\ UNCHANGED attempted

(* A session found invalid in mid-session may be renewed once.              *)
RejectedForgetful ==
  /\ login' = IF login.phase = "gate" THEN Code("reauth", 1)
              ELSE AfterFailure(login.phase, login.try)
  /\ UNCHANGED <<attempted, passed>>

Rejected ==
  /\ login' = CASE login.phase = "gate" /\ ~attempted -> Code("reauth", 1)
                [] login.phase = "gate" /\ attempted -> At("dead")
                [] OTHER -> AfterFailure(login.phase, login.try)
  /\ attempted' = (attempted \/ login.phase = "gate")
  /\ UNCHANGED passed

SessionStandsIfOk(seen) == \E i \in DOMAIN seen : seen[i] = "ok"
SessionStands(seen) ==
  \/ \E i \in DOMAIN seen : seen[i] = "ok"
  \/ \A i \in DOMAIN seen : seen[i] = "unreachable"

Probe ==
  /\ login.at = "probe"
  /\ Len(login.seen) < 2 /\ "ok" \notin {login.seen[i] : i \in DOMAIN login.seen}
  /\ \E outcome \in ProbeOutcomes :
       Goto([login EXCEPT !.seen = Append(@, outcome)])

Judge ==
  /\ login.at = "probe"
  /\ Len(login.seen) = 2 \/ login.seen = <<"ok">>
  /\ IF SessionStands(login.seen) THEN Validated ELSE Rejected
  /\ UNCHANGED <<oauth, issued, honoured, header, jkey, creds, exchanges>>

Gate == login = At("trading") /\ Goto(Validate("gate", 1))

-----------------------------------------------------------------------------
(* The process may die anywhere; while it writes cred.yml, which it does    *)
(* not do atomically, it takes the file with it.                            *)
Die ==
  /\ login # At("dead")
  /\ login' = At("dead")
  /\ creds' \in IF login.at = "save" THEN {creds, header, Broken} ELSE {creds}
  /\ UNCHANGED <<oauth, issued, honoured, header, jkey, attempted, exchanges, passed>>

Relaunch ==
  /\ login = At("dead")
  /\ login' = At("start")
  /\ header' = NoToken /\ jkey' = NoToken
  /\ attempted' = FALSE /\ exchanges' = 0
  /\ UNCHANGED <<oauth, issued, honoured, creds, passed>>

SessionNext ==
  \/ Expire \/ LegacyLogin \/ StartBroken \/ StartCached \/ StartFresh
  \/ NoCode \/ ExchangeFails \/ ExchangeWorks \/ SaveCreds
  \/ Probe \/ Judge \/ Gate \/ Die \/ Relaunch

SessionSpec == SessionInit /\ [][SessionNext]_sessionVars

-----------------------------------------------------------------------------
(* The token the trader works with has passed a validation and is the one   *)
(* in cred.yml, also after a renewal in mid-session: a relaunch takes it up *)
(* and needs no login of its own.                                           *)
TradingTokenSaved ==
  oauth /\ login = At("trading") => creds = header /\ header \in passed

(* A broker that cannot be reached never costs a login: no code is asked    *)
(* for after a validation, at a start or in mid-session, unless one of its  *)
(* probes did reach the broker (the comment in validate_oauth_session on    *)
(* 2026-05-15).  An outage that a gateway answers with HTTP 5xx is no such  *)
(* case: the code takes it for a refusal, and it spends the renewal.        *)
UnreachableNeverReauths ==
  [][login.at = "probe" /\ login'.at = "code" =>
       \E i \in DOMAIN login.seen : login.seen[i] # "unreachable"]_sessionVars

(* One process asks for few tokens, however often its session is refused:   *)
(* each automated attempt once, the prompt once, the renewal once.          *)
FewExchanges == exchanges <= Attempts + 2
=============================================================================
