---------------------------- MODULE TelegramErrors ----------------------------
(***************************************************************************)
(* telegram-errors.ts: what a failed Telegram call means.  Several readers  *)
(* of one error (the session store, the channel reader, the answer to the   *)
(* caller, the alert) each ask it their own question; the properties are    *)
(* about their answers fitting together.                                    *)
(***************************************************************************)
EXTENDS Integers

\* An error: the status of an exception of the service's own, or the code of an RPC
\* error with the seconds GramJS puts on it and the number the code ends with, or the
\* signs in the message of any other error.
Own(status)  == [status |-> status, code |-> "", seconds |-> -1, digits |-> -1, signs |-> {}]
Rpc(code)    == [Own(0) EXCEPT !.code = code]
Flood(wait)  == [Rpc("FLOOD") EXCEPT !.seconds = wait]
FloodCode(wait) == [Rpc("FLOOD_WAIT_n") EXCEPT !.digits = wait]
Local(signs) == [Own(0) EXCEPT !.signs = signs]

Signs == {"timeout suffix", "connectivity", "lookup prefix"}
IsAnError(e) ==
  /\ e.status \in {0, 401, 500, 503} /\ e.seconds \in Nat \cup {-1} /\ e.digits \in Nat \cup {-1}
  /\ e.signs \subseteq Signs
  /\ e.status # 0 => e.code = ""
  /\ e.seconds # -1 <=> e.code = "FLOOD"
  /\ e.digits # -1 <=> e.code \in {"FLOOD_WAIT_n", "FLOOD_PREMIUM_WAIT_n"}
  /\ e.code # "" => e.signs = {}

-------------------------------------------------------------------------------
(* The tables (telegram/constants.ts). *)
InvalidSessionErrors ==
  {"AUTH_KEY_UNREGISTERED", "AUTH_KEY_INVALID", "AUTH_KEY_PERM_EMPTY", "SESSION_REVOKED",
   "SESSION_EXPIRED", "USER_DEACTIVATED", "USER_DEACTIVATED_BAN"}
ChannelUnavailableErrors ==
  {"USERNAME_INVALID", "USERNAME_NOT_OCCUPIED", "CHANNEL_INVALID", "CHANNEL_PRIVATE",
   "CHANNEL_PUBLIC_GROUP_NA"}
ChannelPeerStaleErrors == {"CHANNEL_INVALID", "PEER_ID_INVALID"}
PhoneFloodErrors == {"PHONE_NUMBER_FLOOD", "PHONE_PASSWORD_FLOOD"}
PhoneFloodRetryAfter == 3600
FloodWaitCodes == {"FLOOD_WAIT_n", "FLOOD_PREMIUM_WAIT_n"}
AuthInputErrors ==
  {"PHONE_CODE_EXPIRED", "PHONE_CODE_INVALID", "PHONE_CODE_EMPTY", "PASSWORD_HASH_INVALID",
   "PHONE_NUMBER_INVALID", "PHONE_NUMBER_BANNED"}
RpcTimeoutCode == "TIMEOUT"

(* The questions. *)
\* Only an error without a code is judged by its message.
LocalSigns(e) == IF e.code = "" THEN e.signs ELSE {}

IsInvalidSession(e) == e.status = 401 \/ e.code \in InvalidSessionErrors

\* -1 when the error is no flood wait.
FloodWaitSeconds(e) ==
  IF e.seconds # -1 THEN e.seconds
  ELSE IF e.code \in PhoneFloodErrors THEN PhoneFloodRetryAfter
  ELSE IF e.code \in FloodWaitCodes THEN e.digits ELSE -1

IsConnectivity(e) ==
  e.code = RpcTimeoutCode \/ LocalSigns(e) \cap {"timeout suffix", "connectivity"} # {}

IsChannelUnavailable(e) ==
  e.code \in ChannelUnavailableErrors \/ "lookup prefix" \in LocalSigns(e)

\* Mutant: only the codes that speak of a peer.
StaleByItsCode(e) == e.code \in ChannelPeerStaleErrors

IsStalePeer(e) == e.code \in ChannelPeerStaleErrors \cup ChannelUnavailableErrors

\* toHttpException: the first answer that applies.
StatusOf(e) ==
  IF e.status # 0 THEN e.status
  ELSE IF FloodWaitSeconds(e) # -1 THEN 429
  ELSE IF IsInvalidSession(e) THEN 401
  ELSE IF IsChannelUnavailable(e) THEN 404
  ELSE IF e.code \in AuthInputErrors THEN 400
  ELSE IF IsConnectivity(e) THEN 503 ELSE 502

\* failWith: what is alerted about an answer.
AlertOf(status) ==
  IF status >= 500 THEN "error" ELSE IF status = 429 THEN "warning" ELSE "none"
===============================================================================
