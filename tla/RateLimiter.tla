---------------------------- MODULE RateLimiter ----------------------------
(***************************************************************************)
(* The token bucket of httpd/RateLimit.cpp, asked by the read loops of all *)
(* connections and reconfigured through the wrappers of HttpServer.cpp.    *)
(*                                                                         *)
(* The configuration and the whitelist are read without the mutex that     *)
(* updates of them hold; only the bucket is used under it.  Tokens are     *)
(* counted in units: Unit makes a token, and rps units are added for each  *)
(* counted millisecond, which is Resolution ticks of the clock.  The bits  *)
(* of the whitelist that matter are the clients it exempts.                *)
(***************************************************************************)
EXTENDS Integers

CONSTANTS Workers,     \* requests in service at the same time
          Clients,
          Configs,     \* the configurations the application may set
          Unit, Resolution,
          Garbage,     \* contents of the uninitialized m_tokens
          MaxIdle      \* bound: ticks without a refill

Config == [enabled : BOOLEAN, rps : Nat, burst : Nat, ips : SUBSET Clients]

(* RateLimitConfig's default values: disabled, with a positive rate. *)
CONSTANT Default

ASSUME ConfigsAssumption ==
    /\ Configs \subseteq Config
    /\ Default \in Config /\ ~Default.enabled
ASSUME NumbersAssumption ==
    /\ Unit \in Nat \ {0} /\ Resolution \in Nat \ {0}
    /\ Garbage \subseteq Int
    /\ MaxIdle \in Nat /\ MaxIdle >= Resolution

VARIABLES
    m_config,
    m_tokens,
    since,   \* ticks since m_last_update
    update,  \* the update that holds the mutex
    draft,   \* the configuration a whitelist wrapper has read and extended
    pc, client,  \* the requests; an idle worker shows its last answer
    lag,     \* history: units admitted beyond the rate, over the worst interval
    earned   \* history: what a bucket filled at half the rate would hold

bucket == <<m_config, m_tokens, since>>
control == <<update, draft>>
requests == <<pc, client>>
history == <<lag, earned>>
vars == <<bucket, control, requests, history>>

None == [kind |-> "none"]
NoClient == "no client"
Verdicts == {"allowed", "limited"}
Kinds == {"set", "preserve"}
Updating == update # None

Smaller(a, b) == IF a < b THEN a ELSE b
Larger(a, b) == IF a > b THEN a ELSE b

Capacity == m_config.burst * Unit

(* A unit of the bucket filled at half the rate: that bucket gains rps of  *)
(* these parts at every tick, where the code's could gain twice as much.   *)
Part == 2 * Resolution

(* The server's limiter is default-constructed: its tokens hold anything,  *)
(* and its clock started long ago.                                         *)
Init ==
    /\ m_config = Default
    /\ m_tokens \in Garbage
    /\ since = MaxIdle
    /\ update = None
    /\ draft = None
    /\ pc = [w \in Workers |-> "allowed"]
    /\ client = [w \in Workers |-> NoClient]
    /\ lag = 0
    /\ earned = Part * Smaller(Capacity, m_tokens)

-----------------------------------------------------------------------------
(* A request: readLoop's check, then allowRequest                          *)

Goto(w, from, to) ==
    /\ pc[w] = from
    /\ pc' = [pc EXCEPT ![w] = to]
    /\ UNCHANGED client

(* The answer of allowRequest; what the request was is forgotten. *)
Decide(w, verdict) ==
    /\ pc' = [pc EXCEPT ![w] = verdict]
    /\ client' = [client EXCEPT ![w] = NoClient]

(* What a read without the mutex may see while an update is writing.       *)
SeenEnabled == {m_config.enabled} \cup (IF Updating THEN {update.config.enabled} ELSE {})
SeenListed(c) == IF Updating THEN BOOLEAN ELSE {c \in m_config.ips}

(* isRateLimitEnabled *)
Arrive(w) ==
    /\ pc[w] \in Verdicts
    /\ \/ /\ TRUE \in SeenEnabled
          /\ pc' = [pc EXCEPT ![w] = "enabled"]
          /\ client' \in {[client EXCEPT ![w] = c] : c \in Clients}
       \/ FALSE \in SeenEnabled /\ Decide(w, "allowed")
    /\ UNCHANGED <<bucket, control, history>>

CheckEnabled(w) ==
    /\ pc[w] = "enabled"
    /\ \/ TRUE \in SeenEnabled /\ Goto(w, "enabled", "listed")
       \/ FALSE \in SeenEnabled /\ Decide(w, "allowed")
    /\ UNCHANGED <<bucket, control, history>>

CheckWhitelist(w) ==
    /\ pc[w] = "listed"
    /\ \/ TRUE \in SeenListed(client[w]) /\ Decide(w, "allowed")
       \/ FALSE \in SeenListed(client[w]) /\ Goto(w, "listed", "bucket")
    /\ UNCHANGED <<bucket, control, history>>

(* Whole milliseconds count, and a refill forgets the rest. *)
Elapsed == since \div Resolution

(* Fault: the bucket overflows. *)
Refilled_Uncapped == m_tokens + Elapsed * m_config.rps

Refilled ==
    IF Elapsed > 0 THEN Smaller(Capacity, m_tokens + Elapsed * m_config.rps)
                   ELSE m_tokens

(* Fault: a call that adds nothing forgets the time that passed, too. *)
TakeToken_ForgetsTime(w) ==
    /\ pc[w] = "bucket"
    /\ ~Updating
    /\ since' = 0
    /\ \/ /\ Refilled >= Unit
          /\ m_tokens' = Refilled - Unit
          /\ lag' = lag + Unit * Resolution
          /\ earned' = Larger(0, earned - Part * Unit)
          /\ Decide(w, "allowed")
       \/ /\ Refilled < Unit
          /\ m_tokens' = Refilled
          /\ UNCHANGED history
          /\ Decide(w, "limited")
    /\ UNCHANGED <<m_config, control>>

(* The section under the mutex. *)
TakeToken(w) ==
    /\ pc[w] = "bucket"
    /\ ~Updating
    /\ since' = IF Elapsed > 0 THEN 0 ELSE since
    /\ \/ /\ Refilled >= Unit
          /\ m_tokens' = Refilled - Unit
          /\ lag' = lag + Unit * Resolution
          /\ earned' = Larger(0, earned - Part * Unit)
          /\ Decide(w, "allowed")
       \/ /\ Refilled < Unit
          /\ m_tokens' = Refilled
          /\ UNCHANGED history
          /\ Decide(w, "limited")
    /\ UNCHANGED <<m_config, control>>

-----------------------------------------------------------------------------
(* Configuration *)

Lock(kind, config) ==
    /\ ~Updating
    /\ update' = [kind |-> kind, config |-> config]
    /\ UNCHANGED <<bucket, requests, history>>

(* setRateLimit, and the wrappers that call it. *)
SetRateLimit == (\E c \in Configs : Lock("set", c)) /\ UNCHANGED draft

(* addRateLimitIpWhitelist, called by one thread at a time, copies the     *)
(* configuration in one section of the mutex and extends its list ...      *)
ReadConfig ==
    /\ ~Updating /\ draft = None
    /\ \E c \in Clients \ m_config.ips :
           draft' = [kind |-> "add", client |-> c,
                     config |-> [m_config EXCEPT !.ips = @ \cup {c}]]
    /\ UNCHANGED <<bucket, update, requests, history>>

(* ... and writes the configuration back in another.                       *)
WriteConfig ==
    /\ draft # None
    /\ Lock("preserve", draft.config)
    /\ UNCHANGED draft

(* The histories begin anew when the rate or the burst changes.            *)
Rescale(config, tokens) ==
    /\ m_tokens' = tokens
    /\ IF config.rps = m_config.rps /\ config.burst = m_config.burst /\ config.rps > 0
       THEN UNCHANGED history
       ELSE /\ lag' = 0
            /\ earned' = Part * Smaller(config.burst * Unit, tokens)

(* Fault: the rescaled tokens are not cut to the new burst. *)
UpdateConfig_Uncut ==
    /\ update.kind = "set"
    /\ m_config' = update.config
    /\ Rescale(update.config,
               IF m_config.rps > 0
               THEN (m_tokens * update.config.rps) \div m_config.rps
               ELSE update.config.burst * Unit)
    /\ update' = None
    /\ UNCHANGED <<since, draft, requests>>

(* updateConfig: an old rate of 0, not the flag, counts as disabled. *)
UpdateConfig ==
    /\ update.kind = "set"
    /\ m_config' = update.config
    /\ Rescale(update.config,
               IF m_config.rps > 0
               THEN Smaller(update.config.burst * Unit,
                            (m_tokens * update.config.rps) \div m_config.rps)
               ELSE update.config.burst * Unit)
    /\ update' = None
    /\ UNCHANGED <<since, draft, requests>>

(* updateConfigPreserveWhitelist keeps the old list; its ratio of rates is *)
(* that of the new rate to itself.                                         *)
UpdateConfigPreserveWhitelist ==
    /\ update.kind = "preserve"
    /\ m_config' = [update.config EXCEPT !.ips = m_config.ips]
    /\ Rescale(update.config,
               IF update.config.rps > 0
               THEN Smaller(update.config.burst * Unit, m_tokens)
               ELSE m_tokens)
    /\ update' = None
    /\ draft' = None
    /\ UNCHANGED <<since, requests>>

Reset ==
    /\ ~Updating
    /\ m_tokens' = Capacity
    /\ since' = 0
    /\ lag' = 0
    /\ earned' = Part * Capacity
    /\ UNCHANGED <<m_config, control, requests>>

(* MaxIdle bounds the clock between refills. *)
Tick ==
    /\ since < MaxIdle
    /\ since' = since + 1
    /\ lag' = Larger(0, lag - m_config.rps)
    /\ earned' = Smaller(Part * Capacity, earned + m_config.rps)
    /\ UNCHANGED <<m_config, m_tokens, control, requests>>

-----------------------------------------------------------------------------
Serve(w) == Arrive(w) \/ CheckEnabled(w) \/ CheckWhitelist(w) \/ TakeToken(w)

Next ==
    \/ \E w \in Workers : Serve(w)
    \/ SetRateLimit \/ ReadConfig \/ WriteConfig
    \/ UpdateConfig \/ UpdateConfigPreserveWhitelist \/ Reset
    \/ Tick

Spec == Init /\ [][Next]_vars

-----------------------------------------------------------------------------
(* Properties *)

Filling == m_config.enabled /\ m_config.rps > 0

(* The variables keep their types, and the bucket of an enabled limiter is *)
(* never fuller than its burst.  (A rate of 0 is left out: the whitelist   *)
(* wrapper may restore one and then does not cut the tokens.)              *)
TypeOK ==
    /\ m_config \in Config
    /\ m_tokens \in Int
    /\ Filling => m_tokens <= Capacity
    /\ since \in 0..MaxIdle
    /\ update = None \/ (update.kind \in Kinds /\ update.config \in Config)
    /\ draft = None \/ (draft.kind = "add" /\ draft.client \in Clients /\ draft.config \in Config)
    /\ pc \in [Workers -> Verdicts \cup {"enabled", "listed", "bucket"}]
    /\ client \in [Workers -> Clients \cup {NoClient}]
    /\ lag \in Nat
    /\ earned \in Int

(* What the bucket admits in any interval in which rate and burst stay the *)
(* same is at most the burst, the rate times the interval, and what comes  *)
(* in while the clock has not reached the next whole millisecond: neither  *)
(* races of requests nor additions to the whitelist admit more.            *)
AdmissionsBounded ==
    Filling =>
        lag <= Resolution * Capacity + (Resolution - 1) * m_config.rps

Limited(w) == pc[w] # "limited" /\ pc'[w] = "limited"

(* A request is limited only if a bucket with the same burst and the same  *)
(* admissions (taking what it has), but filled at half the rate, without *)
(* rounding, would be short of a token too, up to the time that has not    *)
(* made a millisecond yet.  Half is what the code gives: a refill forgets  *)
(* the fraction of a millisecond, so requests every two milliseconds less  *)
(* a tick are served at little more than half of requests_per_second, of   *)
(* which RateLimit.h promises the whole.  (That a listed client is exempt  *)
(* is not stated: the wrappers of HttpServer.h:584-600 never change the    *)
(* list in force, and per_ip, RateLimit.h:43, is read by nothing.)         *)
LimitedJustly ==
    [][\A w \in Workers : Limited(w) =>
           earned < Part * Unit + (Resolution - 1) * m_config.rps]_vars
=============================================================================
