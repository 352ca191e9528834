----------------------------- MODULE MCChannelRead -----------------------------
(***************************************************************************)
(* ChannelRead on a short history: three pages at most and the probe.       *)
(***************************************************************************)
EXTENDS ChannelRead, FiniteSetsExt

\* One message that is no post.
MCHistories ==
  {h \in [1 .. 4 -> {"post", "service", "undated", "none"}] :
     Quantify(1 .. 4, LAMBDA i : h[i] \in {"service", "undated"}) <= 1}

\* One error of each kind the code tells apart.
MCClientErrors == {Own(401), Own(503)}
MCCallErrors ==
  {Rpc("SESSION_REVOKED"), Flood(30), FloodCode(60), Local({"timeout suffix"}), Rpc("CHAT_ADMIN_REQUIRED")}
MCLookupErrors == {Rpc("USERNAME_NOT_OCCUPIED"), Local({"lookup prefix", "connectivity"})}
MCPeerErrors == {Rpc("CHANNEL_PRIVATE"), Rpc("PEER_ID_INVALID")}

\* Bound: in Redis keys do not meet, so the other one is followed in the map only.
Bounded == redis => \A i \in DOMAIN entries : entries[i].key = Key
===============================================================================
