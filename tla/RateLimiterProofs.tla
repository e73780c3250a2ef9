------------------------- MODULE RateLimiterProofs -------------------------
(***************************************************************************)
(* What the rate limiter admits, for every rate, burst and resolution of   *)
(* the clock.  The invariant sets lag against what is missing in the       *)
(* bucket: an admission moves units from one to the other, a refill brings *)
(* back no more than the clock has taken from lag.  And whom it limits:    *)
(* the bucket and the part of a millisecond it still waits for hold no     *)
(* less than a bucket filled at half the rate (Paced).                     *)
(***************************************************************************)
EXTENDS RateLimiter, TLAPS

(* Arithmetic *)

LEMMA Division ==
    ASSUME NEW s \in Nat, NEW n \in Nat \ {0}
    PROVE  /\ s \div n \in Nat
           /\ (s \div n) * n <= s
           /\ s < (s \div n + 1) * n
           /\ s < n => s \div n = 0
           /\ s >= n => s \div n > 0
  <1>1. s \div n \in Nat BY Z3
  <1>2. (s \div n) * n <= s BY Z3
  <1>3. s < n => s \div n = 0 BY Z3
  <1>4. s >= n => s \div n > 0 BY Z3
  <1>5. s < (s \div n + 1) * n BY Z3
  <1> QED BY <1>1, <1>2, <1>3, <1>4, <1>5

LEMMA Exact ==
    ASSUME NEW a \in Int, NEW n \in Nat \ {0}
    PROVE  (a * n) \div n = a
  BY Z3

LEMMA Quotient ==
    ASSUME NEW a \in Int, NEW n \in Nat \ {0}
    PROVE  a \div n \in Int
  BY Z3

LEMMA Remaining ==
    ASSUME NEW a \in Nat, NEW n \in Nat, a < n
    PROVE  n - 1 - a \in Nat
  OBVIOUS

LEMMA Monotone ==
    ASSUME NEW a \in Int, NEW b \in Int, NEW c \in Nat, a <= b
    PROVE  a * c <= b * c
  BY Z3

(* The bound of the admissions: an empty bucket that was just refilled. *)
LEMMA Worst ==
    ASSUME NEW R \in Nat \ {0}, NEW r \in Nat, NEW C \in Nat, NEW s \in Nat
    PROVE  /\ 0 <= R * C + (R - 1) * r
           /\ \A t \in Int : t >= 0 =>
                R * (C - t) + (R - 1 - s) * r <= R * C + (R - 1) * r
  <1>1. R - 1 \in Nat /\ R * C \in Nat
    OBVIOUS
  <1>2. (R - 1) * r \in Nat
    BY <1>1
  <1>3. ASSUME NEW t \in Int, t >= 0
        PROVE  R * (C - t) + (R - 1 - s) * r <= R * C + (R - 1) * r
    <2>1. R * (C - t) = R * C - R * t /\ (R - 1 - s) * r = (R - 1) * r - s * r
      BY <1>3, Z3
    <2>2. R * t >= 0 /\ s * r >= 0 /\ R * t \in Int /\ s * r \in Int
      BY <1>3, Z3
    <2> QED
      BY <1>1, <1>2, <2>1, <2>2
  <1> QED
    BY <1>1, <1>2, <1>3

(* A refill by E whole intervals of the s ticks that have passed. *)
LEMMA Refill ==
    ASSUME NEW R \in Nat \ {0}, NEW r \in Nat \ {0}, NEW C \in Int, NEW t \in Int,
           NEW s \in Nat, NEW E \in Nat, E * R <= s, t <= C,
           NEW L \in Nat,
           L <= R * (C - t) + (R - 1 - s) * r
    PROVE  /\ L <= R * (C - (t + E * r)) + (R - 1) * r
           /\ C <= t + E * r => L <= (R - 1) * r
  <1>1. (E * R) * r <= s * r
    BY Monotone
  <1>2. (R - 1 - s) * r = (R - 1) * r - s * r
    BY Z3
  <1>3. R * (C - (t + E * r)) = R * (C - t) - (E * R) * r
    BY Z3
  <1>4. L <= R * (C - (t + E * r)) + (R - 1) * r
    BY <1>1, <1>2, <1>3, Z3
  <1>5. ASSUME C <= t + E * r PROVE R * (C - (t + E * r)) <= 0
    BY <1>5, Z3
  <1> QED
    BY <1>4, <1>5, Z3

-----------------------------------------------------------------------------
(* The invariant *)

Typed ==
    /\ m_config \in Config
    /\ m_tokens \in Int
    /\ since \in 0..MaxIdle
    /\ update = None \/ (update.kind \in Kinds /\ update.config \in Config)
    /\ draft = None \/ (draft.kind = "add" /\ draft.client \in Clients /\ draft.config \in Config)
    /\ pc \in [Workers -> Verdicts \cup {"enabled", "listed", "bucket"}]
    /\ client \in [Workers -> Clients \cup {NoClient}]
    /\ lag \in Nat
    /\ earned \in Int

(* What the ticks still needed for a whole millisecond would bring in. *)
Spared == (Resolution - 1 - since) * m_config.rps

(* Uninitialized tokens: gone with the first refill or update. *)
Overfull ==
    /\ ~m_config.enabled
    /\ m_tokens > Capacity
    /\ since >= Resolution
    /\ lag = 0

(* A bucket from which something was admitted is not in debt. *)
Level ==
    /\ m_tokens <= Capacity
    /\ lag = 0 \/ (m_tokens >= 0 /\ lag <= Resolution * (Capacity - m_tokens) + Spared)

Levelled == m_config.rps > 0 => Overfull \/ Level

IInv == Typed /\ Levelled

LEMMA ConfigTyped ==
    ASSUME Typed
    PROVE  /\ m_config.rps \in Nat /\ m_config.burst \in Nat
           /\ m_config.enabled \in BOOLEAN /\ m_config.ips \in SUBSET Clients
           /\ Capacity \in Nat
           /\ since \in Nat
           /\ Elapsed \in Nat
           /\ Elapsed * m_config.rps \in Nat
           /\ Refilled \in Int
  <1>1. m_config.rps \in Nat /\ m_config.burst \in Nat
        /\ m_config.enabled \in BOOLEAN /\ m_config.ips \in SUBSET Clients
    BY DEF Typed, Config
  <1>2. Capacity \in Nat
    BY <1>1, NumbersAssumption DEF Capacity
  <1>3. since \in Nat
    BY NumbersAssumption DEF Typed
  <1>4. Elapsed \in Nat
    BY <1>3, NumbersAssumption, Division DEF Elapsed
  <1>5. Elapsed * m_config.rps \in Nat
    BY <1>1, <1>4
  <1>6. Refilled \in Int
    BY <1>2, <1>5 DEF Typed, Refilled, Smaller
  <1> QED
    BY <1>1, <1>2, <1>3, <1>4, <1>5, <1>6

LEMMA PartTyped == Part \in Nat /\ Part * Unit \in Nat
  <1>1. Part \in Nat
    BY NumbersAssumption DEF Part
  <1> QED
    BY <1>1, NumbersAssumption

LEMMA InitIInv == Init => IInv
  <1> SUFFICES ASSUME Init PROVE IInv
    OBVIOUS
  <1>1. Typed
    <2>1. m_config \in Config /\ ~m_config.enabled
      BY ConfigsAssumption DEF Init
    <2>2. m_tokens \in Int /\ since \in 0..MaxIdle /\ lag \in Nat
      BY NumbersAssumption DEF Init
    <2>3. earned \in Int
      <3>1. Capacity \in Int
        BY <2>1, NumbersAssumption DEF Capacity, Config
      <3>2. Smaller(Capacity, m_tokens) \in Int
        BY <3>1, <2>2 DEF Smaller
      <3>3. Part \in Nat
        BY NumbersAssumption DEF Part
      <3> QED
        BY <3>2, <3>3 DEF Init
    <2> QED
      BY <2>1, <2>2, <2>3 DEF Init, Typed, Verdicts
  <1>2. Levelled
    <2>1. ~m_config.enabled /\ since >= Resolution /\ lag = 0
      BY ConfigsAssumption, NumbersAssumption DEF Init
    <2>2. m_tokens > Capacity \/ m_tokens <= Capacity
      BY <1>1, ConfigTyped DEF Typed
    <2> QED
      BY <2>1, <2>2 DEF Levelled, Overfull, Level
  <1> QED
    BY <1>1, <1>2 DEF IInv

(* A step that leaves configuration, bucket and history alone keeps Levelled. *)
LEMMA BucketKept ==
    ASSUME Levelled, UNCHANGED <<bucket, history>>
    PROVE  Levelled'
  BY DEF Levelled, Overfull, Level, Spared, Capacity, bucket, history

LEMMA RequestKeepsTypes ==
    ASSUME Typed, NEW w \in Workers, Arrive(w) \/ CheckEnabled(w) \/ CheckWhitelist(w)
    PROVE  Typed' /\ UNCHANGED <<bucket, history>>
  <1>1. UNCHANGED <<bucket, control, history>>
    BY DEF Arrive, CheckEnabled, CheckWhitelist
  <1>2. /\ pc' \in [Workers -> Verdicts \cup {"enabled", "listed", "bucket"}]
        /\ client' \in [Workers -> Clients \cup {NoClient}]
    BY DEF Typed, Arrive, CheckEnabled, CheckWhitelist, Goto, Decide, Verdicts
  <1> QED
    BY <1>1, <1>2 DEF Typed, bucket, control, history

-----------------------------------------------------------------------------
(* The bucket *)

LEMMA RefillLevels ==
    ASSUME Typed, Levelled, m_config.rps > 0, Elapsed > 0
    PROVE  /\ Refilled <= Capacity
           /\ \/ lag = 0
              \/ /\ Refilled >= 0
                 /\ lag <= Resolution * (Capacity - Refilled) + (Resolution - 1) * m_config.rps
  <1> DEFINE more == m_tokens + Elapsed * m_config.rps
             spare == (Resolution - 1) * m_config.rps
  <1>0. /\ Elapsed * m_config.rps \in Nat
        /\ Capacity \in Nat /\ m_tokens \in Int
    BY ConfigTyped DEF Typed
  <1>1. Refilled = Smaller(Capacity, more)
    BY DEF Refilled
  <1>2. more \in Int /\ Capacity \in Int
    BY ConfigTyped DEF Typed
  <1>3. /\ Refilled <= Capacity
        /\ Refilled = more \/ (Refilled = Capacity /\ Capacity <= more)
    <2> HIDE DEF more
    <2> QED
      BY <1>1, <1>2 DEF Smaller
  <1>4. CASE Overfull
    BY <1>3, <1>4 DEF Overfull
  <1>5. CASE Level /\ lag # 0
    <2>1. /\ m_config.rps \in Nat \ {0} /\ Resolution \in Nat \ {0}
          /\ since \in Nat /\ Elapsed \in Nat /\ lag \in Nat /\ m_tokens \in Int
      BY ConfigTyped, NumbersAssumption DEF Typed
    <2>2. Elapsed * Resolution <= since
      BY <2>1, Division DEF Elapsed
    <2>3. m_tokens <= Capacity /\ m_tokens >= 0 /\ lag <= Resolution * (Capacity - m_tokens)
                                         + (Resolution - 1 - since) * m_config.rps
      BY <1>5 DEF Level, Spared
    <2>4. /\ lag <= Resolution * (Capacity - more) + spare
          /\ Capacity <= more => lag <= spare
      BY <2>1, <2>2, <2>3, <1>2, Refill
    <2>5. Resolution * (Capacity - Capacity) = 0
      BY <2>1, <1>2
    <2>6. spare \in Int
      BY <2>1
    <2>9. Refilled >= 0
      BY <1>0, <1>3, <2>3
    <2>7. CASE Refilled = more
      BY <2>7, <2>4, <2>9, <1>3
    <2>8. CASE Refilled = Capacity /\ Capacity <= more
      <3>1. lag <= spare
        BY <2>4, <2>8
      <3>2. Resolution * (Capacity - Refilled) = 0
        BY <2>5, <2>8
      <3> HIDE DEF spare
      <3>3. lag <= 0 + spare
        BY <3>1, <2>6, <2>1
      <3> QED
        BY <3>2, <3>3, <2>9, <1>3 DEF spare
    <2> QED
      BY <2>7, <2>8, <1>3
  <1>6. CASE lag = 0
    BY <1>3, <1>6
  <1> QED
    BY <1>4, <1>5, <1>6 DEF Levelled

(* What is admitted is taken from the bucket. *)
LEMMA Admit ==
    ASSUME NEW R \in Nat \ {0}, NEW U \in Nat, NEW C \in Int, NEW t \in Int,
           NEW x \in Nat, NEW L \in Nat, t <= C,
           L = 0 \/ L <= R * (C - t) + x
    PROVE  /\ t - U <= C
           /\ L + U * R <= R * (C - (t - U)) + x
  <1>1. R * (C - (t - U)) = R * (C - t) + U * R
    BY Z3
  <1>2. R * (C - t) >= 0
    BY Z3
  <1>3. R * (C - t) \in Int /\ U * R \in Int
    OBVIOUS
  <1>4. L <= R * (C - t) + x
    BY <1>2, <1>3
  <1> QED
    BY <1>1, <1>3, <1>4

LEMMA TakeTokenKeepsIInv ==
    ASSUME IInv, NEW w \in Workers, TakeToken(w)
    PROVE  IInv'
  <1> DEFINE x == (Resolution - 1 - since') * m_config.rps
  <1>1. Typed /\ Levelled
    BY DEF IInv
  <1>2. UNCHANGED <<m_config, update, draft>>
    BY DEF TakeToken, control
  <1>3. /\ Unit \in Nat \ {0} /\ Resolution \in Nat \ {0}
        /\ Unit * Resolution \in Nat
    BY NumbersAssumption
  <1>4. since' \in 0..MaxIdle /\ since' \in Nat /\ since' < Resolution
    <2>1. since \in Nat /\ Elapsed \in Nat
      BY <1>1, ConfigTyped
    <2>2. Elapsed > 0 \/ since < Resolution
      BY <2>1, <1>3, Division DEF Elapsed
    <2>3. since' = 0 \/ (since' = since /\ since < Resolution)
      BY <2>1, <2>2 DEF TakeToken
    <2>4. since \in 0..MaxIdle
      BY <1>1 DEF Typed
    <2> QED
      BY <2>1, <2>3, <2>4, NumbersAssumption
  <1>5. Refilled \in Int /\ lag \in Nat
    BY <1>1, ConfigTyped DEF Typed
  <1>6. \/ /\ Refilled >= Unit
           /\ m_tokens' = Refilled - Unit /\ lag' = lag + Unit * Resolution
        \/ /\ m_tokens' = Refilled /\ lag' = lag
    BY DEF TakeToken, history
  <1>7. Typed'
    <2>1. m_tokens' \in Int /\ lag' \in Nat
      BY <1>3, <1>5, <1>6
    <2>3. earned' \in Int
      BY <1>1, <1>3, PartTyped DEF Typed, TakeToken, Larger, history
    <2>2. /\ pc' \in [Workers -> Verdicts \cup {"enabled", "listed", "bucket"}]
          /\ client' \in [Workers -> Clients \cup {NoClient}]
      BY <1>1 DEF Typed, TakeToken, Decide, Verdicts
    <2> QED
      BY <2>1, <2>2, <2>3, <1>1, <1>2, <1>4 DEF Typed
  <1>8. ASSUME m_config.rps > 0 PROVE Level'
    <2>1. /\ Capacity' = Capacity /\ Capacity \in Int /\ m_config.rps \in Nat
      BY <1>1, <1>2, ConfigTyped DEF Capacity
    <2>2. x \in Nat
      <3>1. Resolution - 1 - since' \in Nat
        BY <1>4, NumbersAssumption, Remaining
      <3> QED
        BY <3>1, <2>1
    <2>3. /\ Refilled <= Capacity
          /\ lag = 0 \/ (Refilled >= 0 /\ lag <= Resolution * (Capacity - Refilled) + x)
      <3>1. CASE Elapsed > 0
        <4>1. since' = 0
          BY <3>1 DEF TakeToken
        <4>2. x = (Resolution - 1) * m_config.rps
          <5>1. Resolution - 1 - since' = Resolution - 1
            BY <4>1, <1>3
          <5> QED
            BY <5>1
        <4> QED
          BY <3>1, <4>2, <1>1, <1>8, RefillLevels
      <3>2. CASE ~(Elapsed > 0)
        <4>1. Refilled = m_tokens /\ since' = since
          BY <3>2 DEF TakeToken, Refilled
        <4>2. ~Overfull
          BY <4>1, <1>4, <1>3, <1>1 DEF Overfull, Typed
        <4> QED
          BY <4>1, <4>2, <1>1, <1>8 DEF Levelled, Level, Spared
      <3> QED
        BY <3>1, <3>2
    <2> HIDE DEF x
    <2>4. CASE Refilled >= Unit /\ m_tokens' = Refilled - Unit /\ lag' = lag + Unit * Resolution
      <3>1. /\ Refilled - Unit <= Capacity
            /\ lag + Unit * Resolution <= Resolution * (Capacity - (Refilled - Unit)) + x
        BY <2>1, <2>2, <2>3, <1>3, <1>5, Admit
      <3>2. m_tokens' >= 0
        BY <2>4, <1>3, <1>5
      <3> QED
        BY <3>1, <3>2, <2>4, <2>1, <1>2 DEF Level, Spared, x
    <2>5. CASE m_tokens' = Refilled /\ lag' = lag
      BY <2>5, <2>3, <2>1, <1>2 DEF Level, Spared, x
    <2> QED
      BY <2>4, <2>5, <1>6
  <1> QED
    BY <1>7, <1>8, <1>2 DEF IInv, Levelled

-----------------------------------------------------------------------------
(* Updates of the configuration *)

(* Tokens that are scaled to the new rate and cut to the new burst keep the *)
(* bucket level, if an unchanged rate leaves the tokens what they were.     *)
LEMMA RescaleKeepsLevelled ==
    ASSUME IInv, NEW config \in Config, NEW tokens \in Int,
           Rescale(config, tokens),
           m_config'.enabled = config.enabled,
           m_config'.rps = config.rps, m_config'.burst = config.burst,
           since' = since,
           config.rps > 0 => tokens <= config.burst * Unit,
           config.rps > 0 /\ config.rps = m_config.rps =>
               tokens <= m_tokens /\ (m_tokens >= 0 => tokens >= 0)
    PROVE  Levelled'
  <1> SUFFICES ASSUME config.rps > 0 PROVE Level'
    BY DEF Levelled
  <1>1. Typed /\ Levelled
    BY DEF IInv
  <1>2. m_tokens' = tokens /\ Capacity' = config.burst * Unit
    BY DEF Rescale, Capacity
  <1>3. m_tokens' <= Capacity'
    BY <1>2
  <1>4. CASE config.rps = m_config.rps /\ config.burst = m_config.burst /\ lag # 0
    <2>1. Capacity' = Capacity /\ Spared' = Spared
      BY <1>2, <1>4 DEF Capacity, Spared
    <2>2. m_tokens >= 0 /\ lag <= Resolution * (Capacity - m_tokens) + Spared
      BY <1>1, <1>4 DEF Levelled, Level, Overfull
    <2>3. /\ Resolution \in Nat /\ Capacity \in Int /\ m_tokens \in Int
          /\ Spared \in Int /\ lag \in Nat
      <3>1. since \in Nat /\ m_config.rps \in Nat /\ Capacity \in Int
        BY <1>1, ConfigTyped
      <3>2. Resolution \in Nat /\ m_tokens \in Int /\ lag \in Nat
        BY <1>1, NumbersAssumption DEF Typed
      <3> QED
        BY <3>1, <3>2 DEF Spared
    <2>4. (Capacity - m_tokens) * Resolution <= (Capacity - tokens) * Resolution
      BY <2>3, <1>4, Monotone
    <2>5. lag <= Resolution * (Capacity - tokens) + Spared
      BY <2>2, <2>3, <2>4
    <2>6. lag' = lag \/ lag' = 0
      BY DEF Rescale, history
    <2> QED
      BY <2>1, <2>2, <2>5, <2>6, <1>2, <1>3, <1>4 DEF Level
  <1>5. CASE ~(config.rps = m_config.rps /\ config.burst = m_config.burst /\ lag # 0)
    BY <1>5, <1>3 DEF Rescale, Level, history
  <1> QED
    BY <1>4, <1>5

LEMMA RescaleTyped ==
    ASSUME Typed, NEW config \in Config, NEW tokens \in Int, Rescale(config, tokens)
    PROVE  m_tokens' \in Int /\ lag' \in Nat /\ earned' \in Int
  <1>1. m_tokens' \in Int /\ lag' \in Nat
    BY DEF Rescale, Typed, history
  <1>2. config.burst * Unit \in Int
    BY NumbersAssumption DEF Config
  <1>3. Part * Smaller(config.burst * Unit, tokens) \in Int
    <2>1. Smaller(config.burst * Unit, tokens) \in Int
      BY <1>2 DEF Smaller
    <2> QED
      BY <2>1, PartTyped
  <1>4. earned' \in Int
    BY <1>3 DEF Rescale, Typed, history
  <1> QED
    BY <1>1, <1>4

LEMMA UpdateConfigKeepsIInv ==
    ASSUME IInv, UpdateConfig
    PROVE  IInv'
  <1> DEFINE config == update.config
             scaled == (m_tokens * config.rps) \div m_config.rps
             full == config.burst * Unit
             tokens == IF m_config.rps > 0 THEN Smaller(full, scaled) ELSE full
  <1>1. Typed
    BY DEF IInv
  <1>2. config \in Config
    BY <1>1 DEF Typed, UpdateConfig, None
  <1>3. /\ config.rps \in Nat /\ config.burst \in Nat /\ full \in Nat
        /\ m_config.rps \in Nat /\ m_tokens \in Int
    <2>1. config.rps \in Nat /\ config.burst \in Nat
      BY <1>2 DEF Config
    <2> QED
      BY <2>1, <1>1, ConfigTyped, NumbersAssumption DEF Typed
  <1>4. ASSUME m_config.rps > 0
        PROVE  scaled \in Int /\ (config.rps = m_config.rps => scaled = m_tokens)
    <2>1. m_config.rps \in Nat \ {0} /\ m_tokens * config.rps \in Int
      BY <1>3, <1>4
    <2>2. scaled \in Int
      BY <2>1, Quotient
    <2>3. ASSUME config.rps = m_config.rps PROVE scaled = m_tokens
      <3>1. scaled = (m_tokens * m_config.rps) \div m_config.rps
        BY <2>3
      <3>2. (m_tokens * m_config.rps) \div m_config.rps = m_tokens
        BY <2>1, <1>3, Exact
      <3> QED
        BY <3>1, <3>2
    <2> QED
      BY <2>2, <2>3
  <1>5. /\ m_config' = config /\ Rescale(config, tokens) /\ update' = None
        /\ UNCHANGED <<since, draft, pc, client>>
    BY DEF UpdateConfig, requests
  <1>6. /\ tokens \in Int
        /\ config.rps > 0 => tokens <= config.burst * Unit
        /\ config.rps > 0 /\ config.rps = m_config.rps =>
             tokens <= m_tokens /\ (m_tokens >= 0 => tokens >= 0)
    <2> HIDE DEF scaled, config
    <2> QED
      BY <1>3, <1>4 DEF Smaller
  <1> HIDE DEF tokens, config
  <1>7. m_tokens' \in Int /\ lag' \in Nat /\ earned' \in Int
    BY <1>1, <1>2, <1>5, <1>6, RescaleTyped
  <1>8. Typed'
    BY <1>1, <1>2, <1>5, <1>7 DEF Typed
  <1>9. Levelled'
    BY <1>2, <1>5, <1>6, RescaleKeepsLevelled
  <1> QED
    BY <1>8, <1>9 DEF IInv

LEMMA UpdateConfigPreserveWhitelistKeepsIInv ==
    ASSUME IInv, UpdateConfigPreserveWhitelist
    PROVE  IInv'
  <1> DEFINE config == update.config
             full == config.burst * Unit
             tokens == IF config.rps > 0 THEN Smaller(full, m_tokens) ELSE m_tokens
  <1>1. Typed
    BY DEF IInv
  <1>2. config \in Config
    BY <1>1 DEF Typed, UpdateConfigPreserveWhitelist, None
  <1>3. /\ config.enabled \in BOOLEAN /\ config.rps \in Nat /\ config.burst \in Nat
        /\ config.ips \in SUBSET Clients /\ full \in Nat /\ m_tokens \in Int
    <2>1. /\ config.enabled \in BOOLEAN /\ config.rps \in Nat /\ config.burst \in Nat
          /\ config.ips \in SUBSET Clients
      BY <1>2 DEF Config
    <2> QED
      BY <2>1, <1>1, NumbersAssumption DEF Typed
  <1>4. /\ m_config' = [config EXCEPT !.ips = m_config.ips]
        /\ Rescale(config, tokens) /\ update' = None /\ draft' = None
        /\ UNCHANGED <<since, pc, client>>
    BY DEF UpdateConfigPreserveWhitelist, requests
  <1>5. /\ tokens \in Int
        /\ config.rps > 0 => tokens <= config.burst * Unit
        /\ config.rps > 0 /\ config.rps = m_config.rps =>
             tokens <= m_tokens /\ (m_tokens >= 0 => tokens >= 0)
    BY <1>3 DEF Smaller
  <1> HIDE DEF tokens, config
  <1>6. /\ m_config' \in Config
        /\ m_config'.enabled = config.enabled
        /\ m_config'.rps = config.rps /\ m_config'.burst = config.burst
    BY <1>1, <1>2, <1>4 DEF Typed, Config
  <1>7. m_tokens' \in Int /\ lag' \in Nat /\ earned' \in Int
    BY <1>1, <1>2, <1>4, <1>5, RescaleTyped
  <1>8. Typed'
    BY <1>1, <1>4, <1>6, <1>7 DEF Typed
  <1>9. Levelled'
    BY <1>2, <1>4, <1>5, <1>6, RescaleKeepsLevelled
  <1> QED
    BY <1>8, <1>9 DEF IInv

LEMMA LockKeepsTypes ==
    ASSUME Typed, NEW kind \in Kinds, NEW config \in Config, Lock(kind, config)
    PROVE  /\ UNCHANGED <<bucket, pc, client, history>>
           /\ update' = [kind |-> kind, config |-> config]
  BY DEF Lock, requests

LEMMA ControlKeepsIInv ==
    ASSUME IInv, SetRateLimit \/ ReadConfig \/ WriteConfig
    PROVE  IInv'
  <1>1. Typed /\ Levelled
    BY DEF IInv
  <1>2. Typed' /\ UNCHANGED <<bucket, history>>
    <2>1. CASE SetRateLimit
      <3>1. PICK c \in Configs : Lock("set", c)
        BY <2>1 DEF SetRateLimit
      <3>2. c \in Config /\ "set" \in Kinds
        BY ConfigsAssumption DEF Kinds
      <3>3. /\ UNCHANGED <<bucket, pc, client, history>>
            /\ update' = [kind |-> "set", config |-> c]
        BY <1>1, <3>1, <3>2, LockKeepsTypes
      <3> QED
        BY <1>1, <2>1, <3>2, <3>3 DEF Typed, SetRateLimit, bucket, history
    <2>2. CASE ReadConfig
      <3>1. UNCHANGED <<bucket, update, requests, history>>
        BY <2>2 DEF ReadConfig
      <3>2. PICK c \in Clients :
               draft' = [kind |-> "add", client |-> c,
                         config |-> [m_config EXCEPT !.ips = @ \cup {c}]]
        BY <2>2 DEF ReadConfig
      <3>3. [m_config EXCEPT !.ips = @ \cup {c}] \in Config
        BY <1>1 DEF Typed, Config
      <3> QED
        BY <1>1, <3>1, <3>2, <3>3 DEF Typed, bucket, requests, history
    <2>3. CASE WriteConfig
      <3>1. draft.config \in Config /\ "preserve" \in Kinds
        BY <1>1, <2>3 DEF Typed, WriteConfig, Kinds
      <3>2. /\ UNCHANGED <<bucket, pc, client, history>>
            /\ update' = [kind |-> "preserve", config |-> draft.config]
        BY <1>1, <2>3, <3>1, LockKeepsTypes DEF WriteConfig
      <3> QED
        BY <1>1, <2>3, <3>1, <3>2 DEF Typed, WriteConfig, bucket, history
    <2> QED
      BY <2>1, <2>2, <2>3
  <1> QED
    BY <1>1, <1>2, BucketKept DEF IInv

LEMMA ResetKeepsIInv ==
    ASSUME IInv, Reset
    PROVE  IInv'
  <1>1. Typed /\ Capacity \in Int /\ Capacity' = Capacity
    BY ConfigTyped DEF IInv, Reset, Capacity
  <1>2. Typed'
    <2>1. Part * Capacity \in Int
      BY <1>1, PartTyped
    <2> QED
      BY <1>1, <2>1, NumbersAssumption DEF Typed, Reset, control, requests
  <1>3. Level'
    BY <1>1 DEF Reset, Level
  <1> QED
    BY <1>2, <1>3 DEF IInv, Levelled

LEMMA TickKeepsIInv ==
    ASSUME IInv, Tick
    PROVE  IInv'
  <1>1. Typed /\ Levelled
    BY DEF IInv
  <1>2. /\ UNCHANGED <<m_config, m_tokens, update, draft, pc, client>>
        /\ since < MaxIdle /\ since' = since + 1
        /\ lag' = 0 \/ lag' = lag - m_config.rps
        /\ lag = 0 => lag' = 0
        /\ lag' \in Nat
        /\ earned' \in Int
    <2>1. lag \in Nat /\ m_config.rps \in Nat
      BY <1>1, ConfigTyped DEF Typed
    <2>2. lag' = Larger(0, lag - m_config.rps)
      BY DEF Tick
    <2>3. /\ lag' = 0 \/ lag' = lag - m_config.rps
          /\ lag = 0 => lag' = 0
          /\ lag' \in Nat
      BY <2>1, <2>2 DEF Larger
    <2>4. earned' \in Int
      <3>1. Part * Capacity \in Int /\ earned + m_config.rps \in Int
        BY <1>1, <2>1, ConfigTyped, PartTyped DEF Typed
      <3> QED
        BY <3>1 DEF Tick, Smaller
    <2> QED
      BY <2>3, <2>4 DEF Tick, control, requests
  <1>3. Typed'
    BY <1>1, <1>2, NumbersAssumption DEF Typed
  <1>4. ASSUME m_config.rps > 0 PROVE (Overfull \/ Level)'
    <2>1. /\ since \in Nat /\ Resolution \in Nat /\ lag \in Nat /\ m_tokens \in Int
          /\ m_config.rps \in Nat /\ Capacity \in Int /\ Capacity' = Capacity
      BY <1>1, <1>2, ConfigTyped, NumbersAssumption DEF Typed, Capacity
    <2>2. CASE Overfull
      BY <2>1, <2>2, <1>2 DEF Overfull
    <2>3. CASE Level /\ lag' = 0
      BY <2>1, <2>3, <1>2 DEF Level
    <2>4. CASE Level /\ lag # 0 /\ lag' = lag - m_config.rps
      <3>1. Spared' = Spared - m_config.rps
        <4>1. (Resolution - 1 - (since + 1)) * m_config.rps
                 = (Resolution - 1 - since) * m_config.rps - m_config.rps
          BY <2>1, Z3
        <4> QED
          BY <4>1, <1>2 DEF Spared
      <3>2. Spared \in Int /\ Resolution * (Capacity - m_tokens) \in Int
        BY <2>1 DEF Spared
      <3>3. lag' <= Resolution * (Capacity - m_tokens) + Spared'
        BY <3>1, <3>2, <2>1, <2>4 DEF Level
      <3> QED
        BY <3>3, <2>1, <2>4, <1>2 DEF Level
    <2> QED
      BY <2>2, <2>3, <2>4, <1>1, <1>2, <1>4 DEF Levelled
  <1> QED
    BY <1>2, <1>3, <1>4 DEF IInv, Levelled

-----------------------------------------------------------------------------
(* The theorems *)

LEMMA StepIInv == IInv /\ [Next]_vars => IInv'
  <1> SUFFICES ASSUME IInv, [Next]_vars PROVE IInv'
    OBVIOUS
  <1>1. Typed /\ Levelled
    BY DEF IInv
  <1>2. ASSUME NEW w \in Workers, Arrive(w) \/ CheckEnabled(w) \/ CheckWhitelist(w)
        PROVE  IInv'
    BY <1>1, <1>2, RequestKeepsTypes, BucketKept DEF IInv
  <1>3. ASSUME NEW w \in Workers, TakeToken(w) PROVE IInv'
    BY <1>3, TakeTokenKeepsIInv
  <1>4. CASE SetRateLimit \/ ReadConfig \/ WriteConfig
    BY <1>4, ControlKeepsIInv
  <1>5. CASE UpdateConfig
    BY <1>5, UpdateConfigKeepsIInv
  <1>6. CASE UpdateConfigPreserveWhitelist
    BY <1>6, UpdateConfigPreserveWhitelistKeepsIInv
  <1>7. CASE Reset
    BY <1>7, ResetKeepsIInv
  <1>8. CASE Tick
    BY <1>8, TickKeepsIInv
  <1>9. CASE UNCHANGED vars
    <2>1. UNCHANGED <<bucket, history>>
      BY <1>9 DEF vars
    <2>2. Typed'
      BY <1>1, <1>9 DEF Typed, vars, bucket, control, requests, history
    <2> QED
      BY <1>1, <2>1, <2>2, BucketKept DEF IInv
  <1> QED
    BY <1>2, <1>3, <1>4, <1>5, <1>6, <1>7, <1>8, <1>9 DEF Next, Serve

LEMMA IInvBounds ==
    ASSUME IInv
    PROVE  TypeOK /\ AdmissionsBounded
  <1>1. Typed /\ Levelled
    BY DEF IInv
  <1>2. Filling => Level
    BY <1>1 DEF Filling, Levelled, Overfull
  <1>3. TypeOK
    BY <1>1, <1>2 DEF TypeOK, Typed, Level
  <1>4. ASSUME Filling
        PROVE  lag <= Resolution * Capacity + (Resolution - 1) * m_config.rps
    <2>1. /\ m_tokens \in Int /\ lag \in Nat /\ since \in Nat
          /\ Capacity \in Nat /\ m_config.rps \in Nat /\ Resolution \in Nat \ {0}
      BY <1>1, ConfigTyped, NumbersAssumption DEF Typed
    <2>2. CASE lag = 0
      BY <2>1, <2>2, Worst
    <2>3. CASE m_tokens >= 0 /\ lag <= Resolution * (Capacity - m_tokens) + Spared
      BY <2>1, <2>3, Worst DEF Spared
    <2> QED
      BY <1>2, <1>4, <2>2, <2>3 DEF Level
  <1> QED
    BY <1>3, <1>4 DEF AdmissionsBounded

(* For every rate, burst, resolution of the clock and initial content of   *)
(* the bucket, and whatever updates interleave with the requests, the      *)
(* variables keep their types and an enabled bucket is no fuller than its  *)
(* burst.                                                                  *)
THEOREM TypeCorrect == Spec => []TypeOK
  <1>1. IInv => TypeOK
    BY IInvBounds
  <1> QED
    BY <1>1, InitIInv, StepIInv, PTL DEF Spec

(* For every such choice the limiter admits, in an interval without a      *)
(* change of rate or burst, at most the burst, the rate times the interval *)
(* and what one unfinished millisecond brings in.                          *)
THEOREM AdmissionsAreBounded == Spec => []AdmissionsBounded
  <1>1. IInv => AdmissionsBounded
    BY IInvBounds
  <1> QED
    BY <1>1, InitIInv, StepIInv, PTL DEF Spec

-----------------------------------------------------------------------------
(* Which requests are limited *)

(* A request is turned down in the section under the mutex only. *)
LEMMA LimitedByBucket ==
    ASSUME Typed, NEW w \in Workers, Next, Limited(w)
    PROVE  pc[w] = "bucket" /\ Refilled < Unit
  <1>1. ASSUME NEW v \in Workers, Serve(v)
        PROVE  pc[w] = "bucket" /\ Refilled < Unit
    <2>1. v = w /\ TakeToken(w)
      BY <1>1 DEF Typed, Limited, Serve, Arrive, CheckEnabled, CheckWhitelist, TakeToken,
         Goto, Decide
    <2> QED
      BY <2>1 DEF Typed, Limited, TakeToken, Decide
  <1>2. CASE \/ SetRateLimit \/ ReadConfig \/ WriteConfig
             \/ UpdateConfig \/ UpdateConfigPreserveWhitelist \/ Reset \/ Tick
    <2>1. pc' = pc
      BY <1>2, Zenon DEF SetRateLimit, ReadConfig, WriteConfig, Lock, UpdateConfig,
         UpdateConfigPreserveWhitelist, Reset, Tick, requests
    <2> QED
      BY <2>1 DEF Limited
  <1> QED
    BY <1>1, <1>2 DEF Next

(* The bucket never falls behind the one filled at half the rate by more   *)
(* than the ticks since the last refill have brought that one.             *)
Paced ==
    /\ earned <= Part * Capacity
    /\ earned <= Part * m_tokens + since * m_config.rps

LEMMA ScaledMonotone ==
    ASSUME NEW p \in Nat, NEW a \in Int, NEW b \in Int, a <= b
    PROVE  p * a <= p * b /\ p * a \in Int
  BY Z3

LEMMA InitPaced == Init => Paced
  <1> SUFFICES ASSUME Init PROVE Paced
    OBVIOUS
  <1>1. Typed
    BY InitIInv DEF IInv
  <1>2. /\ Capacity \in Int /\ m_tokens \in Int /\ Part \in Nat
        /\ since * m_config.rps \in Nat
    BY <1>1, ConfigTyped, PartTyped DEF Typed
  <1> DEFINE level == Smaller(Capacity, m_tokens)
  <1>3. level \in Int /\ level <= Capacity /\ level <= m_tokens
    BY <1>2 DEF Smaller
  <1>4. earned = Part * level
    BY DEF Init
  <1> HIDE DEF level
  <1>5. Part * level <= Part * Capacity /\ Part * level <= Part * m_tokens
    BY <1>2, <1>3, ScaledMonotone
  <1>6. Part * level \in Int /\ Part * m_tokens \in Int
    BY <1>2, <1>3
  <1> QED
    BY <1>2, <1>4, <1>5, <1>6 DEF Paced

(* A refill forgets less than the time it counts. *)
LEMMA RefillPaces ==
    ASSUME Typed, Paced
    PROVE  earned <= Part * Refilled + (IF Elapsed > 0 THEN 0 ELSE since) * m_config.rps
  <1>1. /\ m_config.rps \in Nat /\ Capacity \in Nat /\ since \in Nat /\ Elapsed \in Nat
        /\ Refilled \in Int /\ m_tokens \in Int /\ earned \in Int
        /\ Resolution \in Nat \ {0} /\ Part \in Nat
    BY ConfigTyped, PartTyped, NumbersAssumption DEF Typed
  <1>2. CASE Elapsed = 0
    BY <1>1, <1>2 DEF Paced, Refilled
  <1>3. CASE Elapsed > 0
    <2> DEFINE gain == Elapsed * m_config.rps
    <2>1. since <= Part * Elapsed
      <3>1. since < (Elapsed + 1) * Resolution
        BY <1>1, Division DEF Elapsed
      <3>2. Part * Elapsed = Elapsed * Resolution + Elapsed * Resolution
        BY <1>1, Z3 DEF Part
      <3>3. Resolution <= Elapsed * Resolution
        BY <1>1, <1>3, Monotone
      <3>4. (Elapsed + 1) * Resolution = Elapsed * Resolution + Resolution
        BY <1>1, Z3
      <3>5. Elapsed * Resolution \in Nat
        BY <1>1
      <3> QED
        BY <1>1, <3>1, <3>2, <3>3, <3>4, <3>5
    <2>2. since * m_config.rps <= Part * gain
      <3>1. Part * Elapsed \in Int
        BY <1>1
      <3>2. since * m_config.rps <= (Part * Elapsed) * m_config.rps
        BY <1>1, <2>1, <3>1, Monotone
      <3>3. (Part * Elapsed) * m_config.rps = Part * gain
        BY <1>1, Z3
      <3> QED
        BY <3>2, <3>3
    <2>3. gain \in Nat /\ since * m_config.rps \in Nat
      BY <1>1
    <2>4. Refilled = Capacity \/ Refilled = m_tokens + gain
      BY <1>3 DEF Refilled, Smaller
    <2> HIDE DEF gain
    <2>5. Part * (m_tokens + gain) = Part * m_tokens + Part * gain
      BY <1>1, <2>3, Z3
    <2>6. Part * m_tokens \in Int /\ Part * gain \in Int /\ Part * Capacity \in Int
      BY <1>1, <2>3
    <2>7. earned <= Part * (m_tokens + gain)
      <3>1. earned <= Part * m_tokens + since * m_config.rps
        BY DEF Paced
      <3> DEFINE x == since * m_config.rps
                 y == Part * m_tokens
                 z == Part * gain
      <3>2. earned <= y + x /\ x <= z /\ x \in Int /\ y \in Int /\ z \in Int
        BY <3>1, <2>2, <2>3, <2>6
      <3>3. earned <= y + z
        <4> HIDE DEF x, y, z
        <4> QED
          BY <3>2, <1>1
      <3> QED
        BY <3>3, <2>5
    <2>8. earned <= Part * Refilled
      BY <2>4, <2>7 DEF Paced
    <2>9. 0 * m_config.rps = 0 /\ Part * Refilled \in Int
      BY <1>1
    <2> QED
      BY <1>3, <2>8, <2>9
  <1> QED
    BY <1>1, <1>2, <1>3

LEMMA TakeTokenPaces ==
    ASSUME Typed, Typed', Paced, NEW w \in Workers, TakeToken(w)
    PROVE  Paced'
  <1> DEFINE spare == (IF Elapsed > 0 THEN 0 ELSE since) * m_config.rps
             before == Part * Refilled
  <1>1. /\ Part \in Nat /\ Part * Unit \in Nat /\ Capacity \in Nat /\ Refilled \in Int
        /\ earned \in Int /\ Unit \in Nat
    BY ConfigTyped, PartTyped, NumbersAssumption DEF Typed
  <1>2. spare \in Nat /\ before \in Int /\ Part * Capacity \in Nat
    BY <1>1, ConfigTyped
  <1>3. spare = since' * m_config'.rps /\ m_config' = m_config /\ Capacity' = Capacity
    BY DEF TakeToken, Capacity
  <1>4. earned <= before + spare /\ earned <= Part * Capacity
    BY RefillPaces DEF Paced
  <1>5. CASE Refilled >= Unit /\ m_tokens' = Refilled - Unit
             /\ earned' = Larger(0, earned - Part * Unit)
    <2>1. Part * m_tokens' = before - Part * Unit
      BY <1>1, <1>5, Z3
    <2>2. before - Part * Unit >= 0
      <3>1. Part * Unit <= Part * Refilled
        BY <1>1, <1>5, ScaledMonotone
      <3> QED
        BY <3>1, <1>1, <1>2
    <2>3. earned' <= Part * Capacity /\ earned' <= Part * m_tokens' + spare
      <3> HIDE DEF spare, before
      <3> QED
        BY <1>1, <1>2, <1>4, <1>5, <2>1, <2>2 DEF Larger
    <2> QED
      BY <2>3, <1>3 DEF Paced, Part
  <1>6. CASE m_tokens' = Refilled /\ earned' = earned
    BY <1>3, <1>4, <1>6 DEF Paced, Part
  <1> QED
    BY <1>5, <1>6 DEF TakeToken, history

LEMMA RescalePaces ==
    ASSUME Typed, Typed', Paced, NEW config \in Config, NEW tokens \in Int,
           Rescale(config, tokens),
           m_config'.rps = config.rps, m_config'.burst = config.burst, since' = since,
           config.rps > 0 /\ config.rps = m_config.rps =>
               tokens = Smaller(config.burst * Unit, m_tokens)
    PROVE  Paced'
  <1> DEFINE full == config.burst * Unit
             x == since * config.rps
  <1>1. /\ Capacity' = full /\ full \in Nat /\ m_tokens' = tokens
        /\ x \in Nat /\ since' * m_config'.rps = x
        /\ Part \in Nat /\ m_tokens \in Int /\ earned \in Int /\ Part' = Part
    BY ConfigTyped, PartTyped, NumbersAssumption DEF Typed, Config, Rescale, Capacity, Part
  <1>2. CASE earned' = earned /\ config.rps = m_config.rps /\ config.burst = m_config.burst
             /\ config.rps > 0
    <2>1. Capacity = full /\ (tokens = full \/ tokens = m_tokens)
      BY <1>2 DEF Capacity, Smaller
    <2>2. earned <= Part * full /\ earned <= Part * m_tokens + x
      BY <1>2 DEF Paced, Capacity
    <2>3. Part * full \in Int /\ Part * tokens \in Int
      BY <1>1
    <2>4. earned <= Part * tokens + x
      <3> HIDE DEF full, x
      <3> QED
        BY <1>1, <2>1, <2>2, <2>3
    <2> QED
      BY <1>1, <1>2, <2>2, <2>4 DEF Paced
  <1>3. CASE earned' = Part * Smaller(full, tokens)
    <2> DEFINE level == Smaller(full, tokens)
    <2>1. level \in Int /\ level <= full /\ level <= tokens
      BY <1>1 DEF Smaller
    <2> HIDE DEF level
    <2>2. Part * level <= Part * full /\ Part * level <= Part * tokens
      BY <1>1, <2>1, ScaledMonotone
    <2>3. Part * level \in Int /\ Part * tokens \in Int
      BY <1>1, <2>1
    <2>4. Part * level <= Part * tokens + x
      <3> HIDE DEF x
      <3> QED
        BY <1>1, <2>2, <2>3
    <2> QED
      BY <1>1, <1>3, <2>2, <2>4 DEF Paced, level
  <1> QED
    BY <1>2, <1>3 DEF Rescale, history

LEMMA UpdatePaces ==
    ASSUME Typed, Typed', Paced, UpdateConfig \/ UpdateConfigPreserveWhitelist
    PROVE  Paced'
  <1> DEFINE config == update.config
             full == config.burst * Unit
  <1>1. config \in Config /\ config.rps \in Nat /\ full \in Nat
        /\ m_config.rps \in Nat /\ m_tokens \in Int
    <2>1. config \in Config
      BY DEF Typed, UpdateConfig, UpdateConfigPreserveWhitelist, None
    <2> QED
      BY <2>1, ConfigTyped, NumbersAssumption DEF Typed, Config
  <1>2. CASE UpdateConfig
    <2> DEFINE scaled == (m_tokens * config.rps) \div m_config.rps
               tokens == IF m_config.rps > 0 THEN Smaller(full, scaled) ELSE full
    <2>1. ASSUME m_config.rps > 0
          PROVE  scaled \in Int /\ (config.rps = m_config.rps => scaled = m_tokens)
      <3>1. m_config.rps \in Nat \ {0} /\ m_tokens * config.rps \in Int
        BY <1>1, <2>1
      <3>2. scaled \in Int
        BY <3>1, Quotient
      <3>3. (m_tokens * m_config.rps) \div m_config.rps = m_tokens
        BY <3>1, <1>1, Exact
      <3> QED
        BY <3>2, <3>3
    <2>2. m_config' = config /\ Rescale(config, tokens) /\ since' = since
      BY <1>2 DEF UpdateConfig
    <2> HIDE DEF scaled, config
    <2>3. /\ tokens \in Int
          /\ config.rps > 0 /\ config.rps = m_config.rps =>
               tokens = Smaller(full, m_tokens)
      BY <1>1, <2>1 DEF Smaller
    <2> HIDE DEF tokens
    <2> QED
      BY <1>1, <2>2, <2>3, RescalePaces DEF full
  <1>3. CASE UpdateConfigPreserveWhitelist
    <2> DEFINE tokens == IF config.rps > 0 THEN Smaller(full, m_tokens) ELSE m_tokens
    <2>1. /\ m_config' = [config EXCEPT !.ips = m_config.ips]
          /\ Rescale(config, tokens) /\ since' = since
      BY <1>3 DEF UpdateConfigPreserveWhitelist
    <2> HIDE DEF config
    <2>2. m_config'.rps = config.rps /\ m_config'.burst = config.burst
      BY <1>1, <2>1 DEF Config
    <2>3. /\ tokens \in Int
          /\ config.rps > 0 /\ config.rps = m_config.rps =>
               tokens = Smaller(full, m_tokens)
      BY <1>1 DEF Smaller
    <2> HIDE DEF tokens
    <2> QED
      BY <1>1, <2>1, <2>2, <2>3, RescalePaces DEF full
  <1> QED
    BY <1>2, <1>3

LEMMA TickPaces ==
    ASSUME Typed, Paced, Tick
    PROVE  Paced'
  <1> DEFINE full == Part * Capacity
             held == Part * m_tokens
             x == since * m_config.rps
  <1>1. /\ m_config.rps \in Nat /\ since \in Nat /\ earned \in Int /\ m_tokens \in Int
        /\ full \in Int /\ held \in Int /\ x \in Int
    BY ConfigTyped, PartTyped DEF Typed
  <1>2. since' * m_config'.rps = x + m_config.rps
    <2>1. (since + 1) * m_config.rps = since * m_config.rps + m_config.rps
      BY <1>1, Z3
    <2> QED
      BY <2>1 DEF Tick
  <1>3. earned' = Smaller(full, earned + m_config.rps)
    BY DEF Tick
  <1>4. earned <= full /\ earned <= held + x
    BY DEF Paced
  <1>5. Part' * Capacity' = full /\ Part' * m_tokens' = held
    BY DEF Tick, Capacity, Part
  <1>6. earned' <= full /\ earned' <= held + (x + m_config.rps)
    <2> HIDE DEF full, held, x
    <2> QED
      BY <1>1, <1>3, <1>4 DEF Smaller
  <1> QED
    BY <1>2, <1>5, <1>6 DEF Paced

LEMMA StepPaced ==
    ASSUME IInv, Paced, [Next]_vars
    PROVE  Paced'
  <1>1. Typed /\ Typed'
    BY StepIInv DEF IInv
  <1>2. CASE \/ UNCHANGED vars \/ SetRateLimit \/ ReadConfig \/ WriteConfig
             \/ \E w \in Workers : Arrive(w) \/ CheckEnabled(w) \/ CheckWhitelist(w)
    <2>1. UNCHANGED <<bucket, history>>
      BY <1>2, Zenon DEF vars, SetRateLimit, ReadConfig, WriteConfig, Lock, Arrive,
         CheckEnabled, CheckWhitelist
    <2> QED
      BY <2>1 DEF Paced, Part, Capacity, bucket, history
  <1>3. ASSUME NEW w \in Workers, TakeToken(w) PROVE Paced'
    BY <1>1, <1>3, TakeTokenPaces
  <1>4. CASE UpdateConfig \/ UpdateConfigPreserveWhitelist
    BY <1>1, <1>4, UpdatePaces
  <1>5. CASE Reset
    <2>1. Capacity' = Capacity /\ Part' = Part /\ since' * m_config'.rps = 0
      BY <1>1, <1>5, ConfigTyped DEF Reset, Capacity, Part
    <2>2. Part * Capacity \in Int
      BY <1>1, ConfigTyped, PartTyped
    <2> QED
      BY <1>5, <2>1, <2>2 DEF Paced, Reset
  <1>6. CASE Tick
    BY <1>1, <1>6, TickPaces
  <1> QED
    BY <1>2, <1>3, <1>4, <1>5, <1>6 DEF Next, Serve

(* For every rate, burst and resolution of the clock, and whatever updates *)
(* interleave with the requests, a request is limited only if a bucket     *)
(* with the same burst that is filled at half the rate would be short of a *)
(* token too.  The half is the price of the fractions a refill forgets.    *)
THEOREM OnlyJustlyLimited == Spec => LimitedJustly
  <1>1. Init => IInv /\ Paced
    BY InitIInv, InitPaced
  <1>2. IInv /\ Paced /\ [Next]_vars => (IInv /\ Paced)'
    BY StepIInv, StepPaced
  <1>3. IInv /\ Paced /\ [Next]_vars =>
            [\A w \in Workers : Limited(w) =>
                 earned < Part * Unit + (Resolution - 1) * m_config.rps]_vars
    <2> SUFFICES ASSUME IInv, Paced, Next, NEW w \in Workers, Limited(w)
                 PROVE  earned < Part * Unit + (Resolution - 1) * m_config.rps
      BY Zenon
    <2> DEFINE short == IF Elapsed > 0 THEN 0 ELSE since
    <2>1. Typed /\ Refilled < Unit
      BY LimitedByBucket DEF IInv
    <2>2. /\ m_config.rps \in Nat /\ since \in Nat /\ Elapsed \in Nat /\ Refilled \in Int
          /\ earned \in Int /\ Part \in Nat \ {0} /\ Unit \in Nat
          /\ Resolution \in Nat \ {0}
      BY <2>1, ConfigTyped, NumbersAssumption DEF Typed, Part
    <2>3. short \in Nat /\ short <= Resolution - 1
      BY <2>2, Division DEF Elapsed
    <2>4. short * m_config.rps <= (Resolution - 1) * m_config.rps
      BY <2>2, <2>3, Monotone
    <2>5. Part * Refilled < Part * Unit
      BY <2>1, <2>2, Z3
    <2>6. earned <= Part * Refilled + short * m_config.rps
      BY <2>1, RefillPaces
    <2>7. /\ short * m_config.rps \in Int /\ (Resolution - 1) * m_config.rps \in Int
          /\ Part * Refilled \in Int /\ Part * Unit \in Int
      BY <2>2, <2>3
    <2> HIDE DEF short
    <2> QED
      BY <2>2, <2>4, <2>5, <2>6, <2>7
  <1> QED
    BY <1>1, <1>2, <1>3, PTL DEF Spec, LimitedJustly
=============================================================================
