---------------------------- MODULE DeviceTokens ----------------------------
(***************************************************************************)
(* The signed tokens of server/auth.py: the OTA endpoint mints one for a   *)
(* device, which presents the newest it has when it opens the WebSocket.   *)
(* What a signature can prove is taken as given: a device holds no token   *)
(* but the one minted for it.                                              *)
(*                                                                         *)
(* A token's age is told by time.time(), which somebody may set; how long  *)
(* ago it was handed out is what really passed.                            *)
(***************************************************************************)
EXTENDS Integers

CONSTANTS
    Device,    \* device ids
    NoId,      \* the empty Device-Id
    Allowed,   \* JARVIZ_AUTH_ALLOWED_DEVICES
    Ttl        \* JARVIZ_AUTH_TOKEN_TTL_S, in ticks

ASSUME DeviceTokensAssumption ==
    NoId \notin Device /\ Allowed \subseteq Device /\ Ttl \in Nat

VARIABLES
    secured,   \* JARVIZ_AUTH_SECRET is set
    token,     \* the age of each device's token, by the server's clock
    handed,    \* ticks since it was handed out
    clockSet   \* devices whose token is older than the last time the clock was set

tokenVars == <<secured, token, handed, clockSet>>

\* Ages beyond Ttl are all alike, and so are those of tokens from the future.
Expired == Ttl + 1
NoToken == Ttl + 2
Age == -1..NoToken

TokensInit ==
    /\ secured \in BOOLEAN
    /\ token = [d \in Device |-> NoToken]
    /\ handed = [d \in Device |-> Expired]
    /\ clockSet = {}

\* mint_token: without a secret, without a Device-Id, or for a device on the allowlist, the
\* answer holds an empty one.
Mint(d) ==
    IF secured /\ d \in Device \ Allowed
    THEN /\ token' = [token EXCEPT ![d] = 0]
         /\ handed' = [handed EXCEPT ![d] = 0]
         /\ clockSet' = clockSet \ {d}
         /\ UNCHANGED secured
    ELSE UNCHANGED tokenVars

\* verify_token
Verified(d) ==
    \/ ~secured
    \/ d \in Allowed
    \/ d # NoId /\ token[d] \in 0..Ttl

\* One second of both clocks.  A token from the future stays one, or its time comes.
TokensAge ==
    /\ \E due \in SUBSET {d \in Device : token[d] = -1} :
          token' = [d \in Device |-> IF token[d] \in 0..Ttl \/ d \in due THEN token[d] + 1
                                     ELSE token[d]]
    /\ handed' = [d \in Device |-> IF handed[d] < Expired THEN handed[d] + 1 ELSE Expired]
    /\ UNCHANGED <<secured, clockSet>>

\* time.time() is set: every token there is gets another age.
SetClock ==
    LET held == {d \in Device : token[d] # NoToken}
    IN  /\ \E age \in [held -> -1..Expired] :
              token' = [d \in Device |-> IF d \in held THEN age[d] ELSE NoToken]
        /\ clockSet' = clockSet \cup held
        /\ UNCHANGED <<secured, handed>>

============================================================================
