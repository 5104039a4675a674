---------------------------- MODULE CodeExchange ----------------------------
(***************************************************************************)
(* How a login code becomes an open id in production, and which error the  *)
(* client gets if it does not: WechatCodeExchanger, the client of WeChat's *)
(* code2session, and classifyLoginError.  No state; what WeChat answers    *)
(* (external) is anything.                                                 *)
(***************************************************************************)
EXTENDS Integers

CONSTANT OpenIDs    \* the identities that WeChat knows

Missing == "missing"    \* an open id that is empty or blank
ASSUME MissingAssumption == Missing \notin OpenIDs

\* A code by what the exchanger looks at: whether it has the prefix "dev:", and
\* whether it is blank.
Codes == [dev : BOOLEAN, blank : BOOLEAN]

\* An HTTP exchange with WeChat: whether an answer arrived whole, whether its status
\* is 2xx, whether its body is JSON, and what that says.
InvalidCode == 40029
ErrCodes    == {0, InvalidCode, 45011, -1}
Replies     == [arrived : BOOLEAN, ok : BOOLEAN, json : BOOLEAN,
                errcode : ErrCodes, openid : OpenIDs \union {Missing}]

\* The result of an exchange, err being the sentinel that errors.Is finds in it.
Identity(o) == [openid |-> o, err |-> "none"]
Failed(err) == [openid |-> Missing, err |-> err]

\* Anything that failed at the exchange is an exchangeError, see Login.
Unspecific == Failed("exchange")

-----------------------------------------------------------------------------
\* WechatClient.Code2Session.
Code2Session(reply) ==
  IF ~reply.arrived THEN Unspecific
  ELSE IF ~reply.ok THEN Failed("upstream")
  ELSE IF ~reply.json THEN Unspecific
  ELSE IF reply.errcode = InvalidCode THEN Failed("invalid")
  ELSE IF reply.errcode # 0 THEN Unspecific
  ELSE IF reply.openid = Missing THEN Failed("upstream")
  ELSE Identity(reply.openid)

\* WechatCodeExchanger.Exchange.
WechatExchange(code, reply) ==
  IF code.dev \/ code.blank THEN Failed("invalid") ELSE Code2Session(reply)

\* The open ids that a login goes on with.
Exchanged ==
  {result.openid : result \in {r \in {WechatExchange(code, reply) :
                                      code \in Codes, reply \in Replies} : r.err = "none"}}

\* The code of the answer to a login that failed at the exchange.
classifyLoginError(result) ==
  IF result.err = "invalid" THEN "ErrLoginInvalidCode" ELSE "ErrLoginWechatFailed"

=============================================================================
