----------------------------- MODULE TokenCache -----------------------------
(***************************************************************************)
(* The console's API client: the token it keeps, the one fetch of a token  *)
(* that all callers share, and the second attempt of a request the API has *)
(* refused (services/console/src/lib/api-client.ts).                       *)
(*                                                                         *)
(* Tokens are numbered in the order the auth server issues them.  The page *)
(* is one thread: what it does between two awaits is one step.             *)
(***************************************************************************)
EXTENDS Naturals, FiniteSets

CONSTANTS
    Callers,        \* fetchWithAuth calls at once; each comes again
    MaxTokens       \* bound: tokens issued

CallSteps == {"idle", "await1", "sent1", "refused", "await2", "sent2"}

VARIABLES
    cached,     \* cachedToken, 0 for null
    young,      \* cachedTokenExpiry has not come
    fetching,   \* tokenFetchPromise: none, asked, answered, failed
    answer,     \* the token that is on its way
    call,       \* step of each caller
    carries,    \* the token of its last attempt, 0 for none
    rejected,   \* history: the token the API refused it
    issued,     \* tokens issued
    revoked,    \* the API refuses tokens up to this one
    session     \* there is a session to issue tokens for

tokenVars == <<cached, young, fetching, answer, call, carries, rejected, issued,
               revoked, session>>

TokenTypeOK ==
    /\ cached \in 0..MaxTokens /\ young \in BOOLEAN
    /\ fetching \in {"none", "asked", "answered", "failed"}
    /\ answer \in 0..MaxTokens
    /\ call \in [Callers -> CallSteps]
    /\ carries \in [Callers -> 0..MaxTokens] /\ rejected \in [Callers -> 0..MaxTokens]
    /\ issued \in 0..MaxTokens /\ revoked \in 0..MaxTokens
    /\ session \in BOOLEAN

TokenInit ==
    /\ cached = 0 /\ young = FALSE
    /\ fetching = "none" /\ answer = 0
    /\ call = [c \in Callers |-> "idle"]
    /\ carries = [c \in Callers |-> 0] /\ rejected = [c \in Callers |-> 0]
    /\ issued = 0 /\ revoked = 0
    /\ session = TRUE

-----------------------------------------------------------------------------
Usable(token) == token # 0 /\ young

(* getAuthToken, as far as it runs without waiting, in a page whose cache  *)
(* holds the given token: send with it, or wait for the shared fetch.      *)
GetAuthToken(c, token, send, await) ==
    IF Usable(token)
    THEN /\ call' = [call EXCEPT ![c] = send]
         /\ carries' = [carries EXCEPT ![c] = token]
         /\ cached' = token
         /\ UNCHANGED fetching
    ELSE /\ call' = [call EXCEPT ![c] = await]
         /\ cached' = 0
         /\ fetching' = IF fetching = "none" THEN "asked" ELSE fetching
         /\ UNCHANGED carries

Request(c) ==
    /\ call[c] = "idle"
    /\ GetAuthToken(c, cached, "sent1", "await1")
    /\ UNCHANGED <<young, answer, rejected, issued, revoked, session>>

Issue ==
    /\ fetching = "asked"
    /\ IF session /\ issued < MaxTokens
       THEN /\ fetching' = "answered"
            /\ issued' = issued + 1 /\ answer' = issued + 1
       ELSE fetching' = "failed" /\ UNCHANGED <<issued, answer>>
    /\ UNCHANGED <<cached, young, call, carries, rejected, revoked, session>>

(* The promise resolves: all who wait send with what it gives, or with     *)
(* nothing, before the page does anything else.                            *)
Resolve ==
    LET token == IF fetching = "answered" THEN answer ELSE 0
        Waits(c) == call[c] \in {"await1", "await2"}
    IN  /\ fetching \in {"answered", "failed"}
        /\ fetching' = "none"
        /\ IF token # 0 THEN cached' = token /\ young' = TRUE
                        ELSE UNCHANGED <<cached, young>>
        /\ call' = [c \in Callers |-> CASE call[c] = "await1" -> "sent1"
                                        [] call[c] = "await2" -> "sent2"
                                        [] OTHER -> call[c]]
        /\ carries' = [c \in Callers |-> IF Waits(c) THEN token ELSE carries[c]]
        /\ UNCHANGED <<answer, rejected, issued, revoked, session>>

(* The API judges a request that has come to it.                           *)
Judge(c) ==
    LET refuses == carries[c] <= revoked IN
        /\ call[c] \in {"sent1", "sent2"}
        /\ IF refuses /\ call[c] = "sent1"
           THEN /\ call' = [call EXCEPT ![c] = "refused"]
                /\ rejected' = [rejected EXCEPT ![c] = carries[c]]
           ELSE /\ call' = [call EXCEPT ![c] = "idle"]
                /\ rejected' = [rejected EXCEPT ![c] = 0]
        /\ UNCHANGED <<cached, young, fetching, answer, carries, issued, revoked, session>>

(* A 401 clears the cache, whatever is in it by now.                       *)
BugCleared == cached
Cleared == 0

Retry(c) ==
    /\ call[c] = "refused"
    /\ GetAuthToken(c, Cleared, "sent2", "await2")
    /\ UNCHANGED <<young, answer, rejected, issued, revoked, session>>

-----------------------------------------------------------------------------
(* Nineteen minutes: the API refuses nothing for its age before that.      *)
Age ==
    /\ young
    /\ young' = FALSE
    /\ UNCHANGED <<cached, fetching, answer, call, carries, rejected, issued, revoked, session>>

(* The keys are rotated, or the session ends: no token of before is good.  *)
Revoke ==
    /\ revoked' = issued
    /\ session' \in {session, FALSE}
    /\ <<revoked', session'>> # <<revoked, session>>
    /\ UNCHANGED <<cached, young, fetching, answer, call, carries, rejected, issued>>

TokenNext ==
    (\E c \in Callers : Request(c) \/ Judge(c) \/ Retry(c))
        \/ Issue \/ Resolve \/ Age \/ Revoke

TokenSpec == TokenInit /\ [][TokenNext]_tokenVars

-----------------------------------------------------------------------------
(* "Retry once with a freshly-fetched token": however calls, fetches and   *)
(* rotations interleave, a second attempt carries a token issued after the *)
(* one that was refused, or none.  It may still be one that was on its way *)
(* when the keys were rotated.                                             *)
RetryIsFresh ==
    \A c \in Callers :
        call[c] = "sent2" => carries[c] = 0 \/ carries[c] > rejected[c]
=============================================================================
