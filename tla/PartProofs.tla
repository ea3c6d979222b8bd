----------------------------- MODULE PartProofs -----------------------------
(***************************************************************************)
(* What is known of the gateway and of the services beside it, one by one: *)
(* an invariant of each that every step of the service keeps, and that     *)
(* says what is claimed of it.                                             *)
(***************************************************************************)
EXTENDS ServiceParts, FiniteSetTheorems, SequenceTheorems, WellFoundedInduction,
        TLAPS

-----------------------------------------------------------------------------
(* The token budget, in the variables of the composition *)

\* The pending calls are different ones, which were made and are not tracked but for
\* those that process_pending_usage has passed.
PendingInOrder ==
    /\ next \in 0 .. Len(pending)
    /\ \A i, k \in 1 .. Len(pending) : pending[i] = pending[k] => i = k
    /\ \A i \in 1 .. Len(pending) : pending[i] \in made /\ (pending[i] \in tracked <=> i < next)

\* As long as no limit was exceeded and no file torn, each tracked call is counted
\* once, in memory and in the file.
BudgetInv ==
    ~raised /\ ~torn =>
        /\ pending \in Seq(Calls) /\ tracked \subseteq made
        /\ used = [c \in Calls |-> IF c \in tracked THEN 1 ELSE 0]
        /\ usageFile.used = used
        /\ PendingInOrder

\* A call that is tracked for the first time is counted, and saved, unless it exceeds
\* the limit.
LEMMA CountedAndSaved ==
    ASSUME BudgetInv, ~raised', ~torn, torn' = torn, NEW c \in Calls, c \notin tracked,
           Budget!Counted(c), Budget!Settle(c)
    PROVE  /\ tracked' = tracked \cup {c} /\ usageFile'.used = used'
           /\ used' = [d \in Calls |-> IF d \in tracked' THEN 1 ELSE 0]
           /\ ~Budget!Exceeded(total') /\ ~raised
<1>1. ~raised /\ tracked' = tracked \cup {c} /\ ~Budget!Exceeded(total')
      /\ usageFile' = [used |-> used', total |-> total']
  BY DEF Budget!Settle, Budget!Saves
<1>2. used = [d \in Calls |-> IF d \in tracked THEN 1 ELSE 0]
  BY <1>1 DEF BudgetInv
<1>3. used' = [used EXCEPT ![c] = 1]
  BY <1>2 DEF Budget!Counted
<1>. QED
  BY <1>1, <1>2, <1>3

\* What a file that is loaded says is what it held, damaged or not.
LEMMA LoadedUsage ==
    ASSUME NEW saved
    PROVE  Budget!Loaded(saved).used = saved.used
BY DEF Budget!Loaded, Budget!Damaged, Budget!Nothing

\* Every step of the budget.
LEMMA BudgetStep ==
    ASSUME BudgetInv, [Budget!Next]_Budget!vars
    PROVE  BudgetInv'
<1>1. SUFFICES ASSUME ~raised', ~torn'
               PROVE  /\ pending' \in Seq(Calls) /\ tracked' \subseteq made'
                      /\ used' = [c \in Calls |-> IF c \in tracked' THEN 1 ELSE 0]
                      /\ usageFile'.used = used'
                      /\ PendingInOrder'
  BY DEF BudgetInv
<1>2. ~raised /\ ~torn
  BY <1>1 DEF Budget!Next, Budget!vars, Budget!RecordUsage, Budget!TrackDirectly,
     Budget!ProcessPending, Budget!TrackUsage, Budget!ResetSession, Budget!Restart,
     Budget!StartOn, Budget!DieWhileSaving, Budget!Settle
<1>3. /\ pending \in Seq(Calls) /\ tracked \subseteq made
      /\ used = [c \in Calls |-> IF c \in tracked THEN 1 ELSE 0]
      /\ usageFile.used = used
      /\ PendingInOrder
  BY <1>2 DEF BudgetInv
<1>4. ASSUME NEW c \in Calls, Budget!RecordUsage(c) PROVE BudgetInv'
  <2>1. /\ c \notin made /\ next = 0 /\ next' = 0 /\ made' = made \cup {c}
        /\ pending' = Append(pending, c)
        /\ UNCHANGED <<used, usageFile, tracked>>
    BY <1>4 DEF Budget!RecordUsage
  <2>2. /\ pending' \in Seq(Calls) /\ Len(pending') = Len(pending) + 1
        /\ Len(pending) \in Nat
        /\ \A i \in 1 .. Len(pending) : pending'[i] = pending[i]
        /\ pending'[Len(pending) + 1] = c
    BY <1>3, <2>1
  <2>3. PendingInOrder'
    BY <1>3, <2>1, <2>2 DEF PendingInOrder
  <2>. QED
    BY <1>3, <2>1, <2>2, <2>3 DEF BudgetInv
<1>5. ASSUME NEW c \in Calls, Budget!TrackDirectly(c) PROVE BudgetInv'
  <2>1. /\ c \notin made /\ made' = made \cup {c} /\ Budget!Counted(c) /\ Budget!Settle(c)
        /\ UNCHANGED <<pending, next, torn>>
    BY <1>5 DEF Budget!TrackDirectly
  <2>2. c \notin tracked
    BY <1>3, <2>1
  <2>3. /\ tracked' = tracked \cup {c} /\ usageFile'.used = used'
        /\ used' = [d \in Calls |-> IF d \in tracked' THEN 1 ELSE 0]
    BY <1>1, <1>2, <2>1, <2>2, CountedAndSaved
  <2>4. PendingInOrder'
    BY <1>3, <2>1, <2>3 DEF PendingInOrder
  <2>. QED
    BY <1>3, <2>1, <2>3, <2>4 DEF BudgetInv
<1>6. CASE Budget!ProcessPending
  <2>1. /\ next = 0 /\ next' = 1 /\ pending # << >>
        /\ UNCHANGED <<used, usageFile, pending, made, tracked>>
    BY <1>6 DEF Budget!ProcessPending
  <2>2. Len(pending) \in Nat /\ Len(pending) # 0
    BY <1>3, <2>1
  <2>3. PendingInOrder'
    BY <1>3, <2>1, <2>2 DEF PendingInOrder
  <2>. QED
    BY <1>3, <2>1, <2>3
<1>7. CASE Budget!TrackUsage
  <2>. DEFINE c == pending[next]
  <2>1. /\ next > 0 /\ Budget!Counted(c) /\ Budget!Settle(c)
        /\ UNCHANGED <<made, torn>>
        /\ IF Budget!Exceeded(total') THEN next' = 0 /\ UNCHANGED pending
           ELSE IF next = Len(pending) THEN next' = 0 /\ pending' = << >>
           ELSE next' = next + 1 /\ UNCHANGED pending
    BY <1>7 DEF Budget!TrackUsage, Budget!PendingAfter
  <2>2. next \in 1 .. Len(pending) /\ Len(pending) \in Nat
    BY <1>3, <2>1 DEF PendingInOrder
  <2>3. PICK d \in Calls : d = pending[next] /\ d \in made /\ d \notin tracked
    BY <1>3, <2>2 DEF PendingInOrder
  <2>4. /\ tracked' = tracked \cup {d} /\ usageFile'.used = used'
        /\ used' = [e \in Calls |-> IF e \in tracked' THEN 1 ELSE 0]
        /\ ~Budget!Exceeded(total')
    BY <1>1, <1>2, <2>1, <2>3, CountedAndSaved
  <2>5. CASE next = Len(pending)
    <3>1. next' = 0 /\ pending' = << >>
      BY <2>1, <2>4, <2>5
    <3>2. PendingInOrder'
      BY <3>1 DEF PendingInOrder
    <3>. QED
      BY <1>3, <2>1, <2>3, <2>4, <3>1, <3>2
  <2>6. CASE next # Len(pending)
    <3>1. next' = next + 1 /\ pending' = pending
      BY <2>1, <2>4, <2>6
    <3>2. PendingInOrder'
      BY <1>3, <2>1, <2>2, <2>3, <2>4, <2>6, <3>1 DEF PendingInOrder
    <3>. QED
      BY <1>3, <2>1, <2>3, <2>4, <3>1, <3>2
  <2>. QED
    BY <2>5, <2>6
<1>8. CASE Budget!ResetSession
  BY <1>3, <1>8 DEF Budget!ResetSession, PendingInOrder
<1>9. CASE Budget!Restart
  <2>1. /\ used' = usageFile.used /\ usageFile' = usageFile /\ pending' = << >> /\ next' = 0
        /\ UNCHANGED <<made, tracked>>
    BY <1>9, LoadedUsage DEF Budget!Restart, Budget!StartOn
  <2>2. PendingInOrder'
    BY <2>1 DEF PendingInOrder
  <2>. QED
    BY <1>3, <2>1, <2>2
<1>10. CASE Budget!DieWhileSaving
  BY <1>1, <1>10 DEF Budget!DieWhileSaving
<1>11. CASE UNCHANGED Budget!vars
  BY <1>3, <1>11 DEF Budget!vars, PendingInOrder
<1>. QED
  BY <1>1, <1>4, <1>5, <1>6, <1>7, <1>8, <1>9, <1>10, <1>11 DEF Budget!Next, BudgetInv

-----------------------------------------------------------------------------
(* The sessions, in the variables of the composition *)

\* The lives of keys and tokens, the time to the expiry, and who reads what.
SessionTypes ==
    /\ created \subseteq Sessions
    /\ key \in [Sessions -> Nat] /\ token \in [Sessions -> Nat]
    /\ left \in [Sessions -> Int]
    /\ reading \in [Requests -> Sessions \cup {Session!Nobody}]

\* Every step keeps the types.
LEMMA SessionTyped ==
    ASSUME Session!SessionAssumption
    PROVE  SessionTypes /\ [Session!Next]_Session!vars => SessionTypes'
<1>. SUFFICES ASSUME SessionTypes, [Session!Next]_Session!vars PROVE SessionTypes'
  OBVIOUS
<1>. SessionTTL \in Nat \ {0} /\ TokenLife \in Nat \ {0}
  BY DEF Session!SessionAssumption
<1>1. ASSUME NEW s \in Sessions, Session!CreateSession(s) PROVE SessionTypes'
  BY <1>1 DEF SessionTypes, Session!CreateSession
<1>2. ASSUME NEW s \in Sessions, Session!ExtendSession(s) PROVE SessionTypes'
  <2>1. PICK life \in 1 .. SessionTTL : key' = [key EXCEPT ![s] = Session!Expire(s, life)]
    BY <1>2 DEF Session!ExtendSession
  <2>2. Session!Expire(s, life) \in Nat
    BY DEF Session!Expire
  <2>3. key' \in [Sessions -> Nat]
    BY <2>1, <2>2 DEF SessionTypes
  <2>4. QED
    BY <1>2, <2>3 DEF SessionTypes, Session!ExtendSession
<1>3. ASSUME NEW s \in Sessions, Session!DeleteSession(s) PROVE SessionTypes'
  BY <1>3 DEF SessionTypes, Session!DeleteSession
<1>4. ASSUME NEW q \in Requests, NEW s \in Sessions, Session!GetSession(q, s) PROVE SessionTypes'
  BY <1>4 DEF SessionTypes, Session!GetSession
<1>5. ASSUME NEW q \in Requests, Session!EndRequest(q) PROVE SessionTypes'
  <2>1. reading[q] \in Sessions
    BY <1>5 DEF SessionTypes, Session!EndRequest
  <2>2. key' \in [Sessions -> Nat] /\ token' \in [Sessions -> Nat]
    BY <1>5, <2>1 DEF SessionTypes, Session!EndRequest
  <2>3. QED
    BY <1>5, <2>2 DEF SessionTypes, Session!EndRequest
<1>6. ASSUME NEW s \in Sessions, Session!RefreshToken(s) PROVE SessionTypes'
  BY <1>6 DEF SessionTypes, Session!RefreshToken
<1>7. CASE Session!Tick
  <2>1. \A s \in Sessions : key[s] \in Nat /\ token[s] \in Nat /\ left[s] \in Int
    BY DEF SessionTypes
  <2>2. /\ \A s \in Sessions : (IF key[s] > 0 THEN key[s] - 1 ELSE 0) \in Nat
        /\ \A s \in Sessions : (IF token[s] > 0 THEN token[s] - 1 ELSE 0) \in Nat
        /\ \A s \in Sessions : (IF left[s] >= 0 THEN left[s] - 1 ELSE -1) \in Int
    BY <2>1
  <2>3. /\ key' \in [Sessions -> Nat] /\ token' \in [Sessions -> Nat]
        /\ left' \in [Sessions -> Int]
    BY <1>7, <2>2 DEF Session!Tick
  <2>4. QED
    BY <1>7, <2>3 DEF SessionTypes, Session!Tick
<1>8. CASE UNCHANGED Session!vars
  BY <1>8 DEF SessionTypes, Session!vars
<1>9. QED
  BY <1>1, <1>2, <1>3, <1>4, <1>5, <1>6, <1>7, <1>8 DEF Session!Next

\* No step gives a way back in to a session that has none.
LEMMA NoWayBack ==
    ASSUME Session!SessionAssumption, SessionTypes, Session!Next, NEW s \in created, ~Session!Access(s)
    PROVE  ~Session!Access(s)'
<1>. s \in Sessions /\ key[s] \in Nat /\ left[s] \in Int /\ token[s] \in Nat
  BY DEF SessionTypes
<1>1. /\ ~(key[s] > 0 /\ left[s] >= 0)
      /\ ~(token[s] > 0)
      /\ \A q \in Requests : reading[q] = s => ~(left[s] >= 0)
  BY DEF Session!Access
<1>2. ASSUME key'[s] > 0 /\ left'[s] >= 0 => key[s] > 0 /\ left[s] >= 0,
             ~(token'[s] > 0),
             \A q \in Requests : reading'[q] = s => ~(left'[s] >= 0)
      PROVE  ~Session!Access(s)'
  BY <1>1, <1>2 DEF Session!Access
<1>3. ASSUME NEW u \in Sessions, Session!CreateSession(u) PROVE ~Session!Access(s)'
  <2>1. u # s
    BY <1>3 DEF Session!CreateSession
  <2>2. /\ key'[s] = key[s] /\ left'[s] = left[s]
        /\ token' = token /\ reading' = reading
    BY <1>3, <2>1 DEF Session!CreateSession, SessionTypes
  <2>3. QED
    BY <1>1, <1>2, <2>2
<1>4. ASSUME NEW u \in Sessions, Session!ExtendSession(u) PROVE ~Session!Access(s)'
  <2>1. PICK life \in 1 .. SessionTTL : key' = [key EXCEPT ![u] = Session!Expire(u, life)]
    BY <1>4 DEF Session!ExtendSession
  <2>2. key[s] = 0 => key'[s] = 0
    BY <2>1 DEF SessionTypes, Session!Expire
  <2>3. left' = left /\ token' = token /\ reading' = reading
    BY <1>4 DEF Session!ExtendSession
  <2>4. QED
    BY <1>1, <1>2, <2>2, <2>3
<1>5. ASSUME NEW u \in Sessions, Session!DeleteSession(u) PROVE ~Session!Access(s)'
  <2>1. key'[s] > 0 => key[s] > 0
    BY <1>5 DEF Session!DeleteSession, SessionTypes
  <2>2. left' = left /\ token' = token /\ reading' = reading
    BY <1>5 DEF Session!DeleteSession
  <2>3. QED
    BY <1>1, <1>2, <2>1, <2>2
<1>6. ASSUME NEW q \in Requests, NEW u \in Sessions, Session!GetSession(q, u) PROVE ~Session!Access(s)'
  <2>1. key' = key /\ left' = left /\ token' = token /\ key[u] > 0
    BY <1>6 DEF Session!GetSession
  <2>2. \A p \in Requests : reading'[p] = s => reading[p] = s \/ u = s
    BY <1>6 DEF Session!GetSession, SessionTypes
  <2>3. QED
    BY <1>1, <1>2, <2>1, <2>2
<1>7. ASSUME NEW q \in Requests, Session!EndRequest(q) PROVE ~Session!Access(s)'
  <2>1. reading[q] \in Sessions /\ left' = left
    BY <1>7 DEF Session!EndRequest, SessionTypes
  <2>2. \A p \in Requests : reading'[p] = s => reading[p] = s
    BY <1>7 DEF Session!EndRequest, SessionTypes, Session!SessionAssumption
  <2>3. CASE left[reading[q]] < 0
    <3>1. token' = token /\ key' = [key EXCEPT ![reading[q]] = 0]
      BY <1>7, <2>3 DEF Session!EndRequest
    <3>2. key'[s] > 0 => key[s] > 0
      BY <2>1, <3>1 DEF SessionTypes
    <3>3. QED
      BY <1>1, <1>2, <2>1, <2>2, <3>1, <3>2
  <2>4. CASE ~(left[reading[q]] < 0)
    <3>1. left[reading[q]] \in Int
      BY <2>1 DEF SessionTypes
    <3>2. reading[q] # s
      BY <1>1, <2>4, <3>1
    <3>3. key' = key /\ token'[s] = token[s]
      BY <1>7, <2>1, <2>4, <3>2 DEF Session!EndRequest, SessionTypes
    <3>4. QED
      BY <1>1, <1>2, <2>1, <2>2, <3>3
  <2>5. QED
    BY <2>3, <2>4
<1>8. ASSUME NEW u \in Sessions, Session!RefreshToken(u) PROVE ~Session!Access(s)'
  <2>1. u # s
    BY <1>1, <1>8 DEF Session!RefreshToken
  <2>2. key' = key /\ left' = left /\ reading' = reading /\ token'[s] = token[s]
    BY <1>8, <2>1 DEF Session!RefreshToken, SessionTypes
  <2>3. QED
    BY <1>1, <1>2, <2>2
<1>9. CASE Session!Tick
  <2>1. /\ key'[s] = IF key[s] > 0 THEN key[s] - 1 ELSE 0
        /\ left'[s] = IF left[s] >= 0 THEN left[s] - 1 ELSE -1
        /\ token'[s] = IF token[s] > 0 THEN token[s] - 1 ELSE 0
        /\ reading' = reading
    BY <1>9 DEF Session!Tick
  <2>2. QED
    BY <1>1, <1>2, <2>1
<1>10. QED
  BY <1>3, <1>4, <1>5, <1>6, <1>7, <1>8, <1>9 DEF Session!Next

-----------------------------------------------------------------------------
(* The settings files, in the variables of the composition *)

SettingsFiles == {"config", "secrets"}
EditsFile(c, f) == client[c].pc # "idle" /\ Head(client[c].edits) = f
Writes(c, f) == client[c].pc = "fill" /\ Head(client[c].edits) = f

\* The content of a copy.
Read(f, copy) == IF copy = Torn THEN Settings!Empty[f] ELSE copy

\* The keys that were stored, there or deleted since.
KeysStored == expected.secrets \cup deleted

\* An edit of the profiles is left to a command for profiles; the key of a new one is
\* stored first.
ForProfiles(cmd) ==
    /\ cmd.op \in {"add", "use", "remove"} /\ cmd.entry \in Settings!Entries
    /\ cmd.ref \in {"value", "name", "none"}

StoresKeyOf(c) ==
    /\ client[c].cmd.op = "add" /\ client[c].cmd.ref = "value"
    /\ client[c].key = client[c].cmd.entry

CommandTyped(c) ==
    /\ client[c].pc \in {"idle", "load", "write", "fill"}
    /\ \/ client[c].pc = "idle"
       \/ client[c].edits = <<"config">> /\ ForProfiles(client[c].cmd)
       \/ client[c].edits = <<"secrets">>
       \/ client[c].edits = <<"secrets", "config">> /\ ForProfiles(client[c].cmd) /\ StoresKeyOf(c)

SettingsTypes ==
    /\ settings = [f \in SettingsFiles |-> settings[f]]
    /\ expected = [f \in SettingsFiles |-> expected[f]]
    /\ client = [c \in Clients |-> client[c]]
    /\ \A c \in Clients : CommandTyped(c)

\* A file that no stale or torn copy has spoiled is torn or what the edits make of it;
\* one client at most is writing it, and that one from what the edits make of it.
FileKept(f) == f \notin overwritten =>
    /\ settings[f] \in {Torn, expected[f]}
    /\ \A c \in Clients : Writes(c, f) =>
          /\ settings[f] = Torn /\ client[c].copy # Torn /\ client[c].copy = expected[f]
          /\ \A d \in Clients : Writes(d, f) => d = c

FilesKept == \A f \in SettingsFiles : FileKept(f)

\* Profiles whose defaults exist, and whose own keys are among these.
SoundProfiles(config, keys) ==
    /\ config = [profiles |-> config.profiles, default |-> config.default]
    /\ config.default = [k \in Settings!Kinds |-> config.default[k]]
    /\ \A k \in Settings!Kinds :
          config.default[k] # Settings!None => Settings!Has(config, config.default[k])
    /\ \A p \in config.profiles : p.ref = p.entry => p.ref \in keys

\* An edit of such profiles that finds what it needs.
CanEdit(cmd, config, keys) ==
    /\ ForProfiles(cmd)
    /\ cmd.op \in {"use", "remove"} => Settings!Has(config, cmd.entry)
    /\ cmd.op = "add" /\ cmd.ref = "value" => cmd.entry \in keys

ProfilesSound ==
    /\ SoundProfiles(Read("config", settings.config), KeysStored)
    /\ \A c \in Clients : EditsFile(c, "config") =>
          /\ client[c].cmd.op = "add" /\ client[c].cmd.ref = "value" =>
                client[c].cmd.entry \in KeysStored
          /\ client[c].pc \in {"write", "fill"} =>
                /\ SoundProfiles(Read("config", client[c].copy), KeysStored)
                /\ CanEdit(client[c].cmd, Read("config", client[c].copy), KeysStored)

SettingsInv == SettingsTypes /\ FilesKept /\ ProfilesSound

\* No profile is named None or Shared.
LEMMA NamesOfKeys ==
    ASSUME NEW e \in Settings!Entries
    PROVE  e # Settings!None /\ e # Settings!Shared /\ e[1] \in Settings!Kinds
BY DEF Settings!Entries, Settings!Kinds, Settings!None, Settings!Shared

\* The empty file is sound.
LEMMA EmptyIsSound ==
    ASSUME NEW keys
    PROVE  SoundProfiles(Settings!Empty.config, keys)
BY DEF SoundProfiles, Settings!Empty

\* So is what an edit makes of sound profiles.
LEMMA AddKeepsSound ==
    ASSUME NEW config, NEW keys, NEW cmd, SoundProfiles(config, keys),
           CanEdit(cmd, config, keys), cmd.op = "add"
    PROVE  SoundProfiles(Settings!add_or_update(cmd, config), keys)
<1>. DEFINE e == cmd.entry
            r == Settings!Ref(cmd)
            edited == Settings!add_or_update(cmd, config)
<1>1. e \in Settings!Entries /\ cmd.ref \in {"value", "name", "none"} /\ e[1] \in Settings!Kinds
      /\ e # Settings!None /\ e # Settings!Shared
  BY NamesOfKeys DEF CanEdit, ForProfiles
<1>2. r = e => e \in keys
  BY <1>1 DEF CanEdit, Settings!Ref, Settings!build_key_ref
<1>3. /\ edited.profiles = Settings!Without(config, e) \cup {[entry |-> e, ref |-> r]}
      /\ edited.default = IF cmd.flag \/ config.default[e[1]] = Settings!None
                          THEN [config.default EXCEPT ![e[1]] = e] ELSE config.default
      /\ edited = [profiles |-> edited.profiles, default |-> edited.default]
  BY DEF Settings!add_or_update
<1>4. \A p \in edited.profiles : p.ref = p.entry => p.ref \in keys
  BY <1>2, <1>3 DEF SoundProfiles, Settings!Without
<1>5. /\ edited.default = [k \in Settings!Kinds |-> edited.default[k]]
      /\ \A k \in Settings!Kinds : edited.default[k] \in {e, config.default[k]}
  <2>1. config.default = [k \in Settings!Kinds |-> config.default[k]]
    BY DEF SoundProfiles
  <2>2. CASE edited.default = config.default
    BY <2>1, <2>2
  <2>3. CASE edited.default = [config.default EXCEPT ![e[1]] = e]
    BY <1>1, <2>1, <2>3
  <2>. QED
    BY <1>3, <2>2, <2>3
<1>6. ASSUME NEW k \in Settings!Kinds, edited.default[k] # Settings!None
      PROVE  Settings!Has(edited, edited.default[k])
  <2>1. CASE edited.default[k] = e
    <3>1. [entry |-> e, ref |-> r] \in edited.profiles
      BY <1>3
    <3>. QED
      BY <2>1, <3>1 DEF Settings!Has
  <2>2. CASE edited.default[k] # e
    <3>1. edited.default[k] = config.default[k]
      BY <1>5, <2>2
    <3>2. PICK p \in config.profiles : p.entry = config.default[k]
      BY <1>6, <3>1 DEF SoundProfiles, Settings!Has
    <3>3. p \in edited.profiles
      BY <1>3, <2>2, <3>1, <3>2 DEF Settings!Without
    <3>. QED
      BY <3>1, <3>2, <3>3 DEF Settings!Has
  <2>. QED
    BY <2>1, <2>2
<1>. HIDE DEF edited
<1>. QED
  BY <1>3, <1>4, <1>5, <1>6 DEF SoundProfiles, edited

\* Another default, and a removal, keep profiles sound.
LEMMA OtherEditsKeepSound ==
    ASSUME NEW config, NEW keys, NEW cmd, SoundProfiles(config, keys),
           CanEdit(cmd, config, keys)
    PROVE  /\ cmd.op = "use" => SoundProfiles(Settings!set_default(cmd, config), keys)
           /\ cmd.op = "remove" => SoundProfiles(Settings!remove(cmd, config), keys)
<1>. DEFINE e == cmd.entry
<1>1. e \in Settings!Entries /\ e[1] \in Settings!Kinds
  BY NamesOfKeys DEF CanEdit, ForProfiles
<1>2. /\ config = [profiles |-> config.profiles, default |-> config.default]
      /\ config.default = [k \in Settings!Kinds |-> config.default[k]]
      /\ \A k \in Settings!Kinds :
            config.default[k] # Settings!None => Settings!Has(config, config.default[k])
      /\ \A p \in config.profiles : p.ref = p.entry => p.ref \in keys
  BY DEF SoundProfiles
<1>3. CASE cmd.op = "use"
  <2>. DEFINE edited == Settings!set_default(cmd, config)
  <2>1. /\ edited.profiles = config.profiles
        /\ edited.default = [config.default EXCEPT ![e[1]] = e]
        /\ edited = [profiles |-> edited.profiles, default |-> edited.default]
    BY <1>2 DEF Settings!set_default
  <2>2. /\ edited.default = [k \in Settings!Kinds |-> edited.default[k]]
        /\ \A k \in Settings!Kinds : edited.default[k] \in {e, config.default[k]}
    BY <1>1, <1>2, <2>1
  <2>3. Settings!Has(config, e)
    BY <1>3 DEF CanEdit
  <2>. HIDE DEF edited
  <2>4. \A k \in Settings!Kinds :
            edited.default[k] # Settings!None => Settings!Has(edited, edited.default[k])
    BY <1>2, <2>1, <2>2, <2>3 DEF Settings!Has
  <2>5. SoundProfiles(edited, keys)
    BY <1>2, <2>1, <2>2, <2>4 DEF SoundProfiles
  <2>. QED
    BY <1>3, <2>5 DEF edited
<1>4. CASE cmd.op = "remove"
  <2>. DEFINE edited == Settings!remove(cmd, config)
  <2>1. /\ edited.profiles = {p \in config.profiles : p.entry # e}
        /\ edited.default = [k \in Settings!Kinds |-> IF config.default[k] = e
                                                   THEN Settings!None ELSE config.default[k]]
        /\ edited = [profiles |-> edited.profiles, default |-> edited.default]
    BY DEF Settings!remove, Settings!Without
  <2>. HIDE DEF edited
  <2>2. ASSUME NEW k \in Settings!Kinds, edited.default[k] # Settings!None
        PROVE  Settings!Has(edited, edited.default[k])
    <3>1. edited.default[k] = config.default[k] /\ config.default[k] # e
      BY <2>1, <2>2
    <3>2. PICK p \in config.profiles : p.entry = config.default[k]
      BY <1>2, <2>2, <3>1 DEF Settings!Has
    <3>3. p \in edited.profiles
      BY <2>1, <3>1, <3>2
    <3>. QED
      BY <3>1, <3>2, <3>3 DEF Settings!Has
  <2>3. \A p \in edited.profiles : p.ref = p.entry => p.ref \in keys
    BY <1>2, <2>1
  <2>4. edited.default = [k \in Settings!Kinds |-> edited.default[k]]
    BY <2>1
  <2>5. SoundProfiles(edited, keys)
    BY <2>1, <2>2, <2>3, <2>4 DEF SoundProfiles
  <2>. QED
    BY <1>4, <2>5 DEF edited
<1>. QED
  BY <1>3, <1>4

\* Every command's edit keeps profiles sound.
LEMMA EditKeepsSound ==
    ASSUME NEW config, NEW keys, NEW cmd, SoundProfiles(config, keys),
           CanEdit(cmd, config, keys)
    PROVE  SoundProfiles(Settings!EditedConfig(cmd, config), keys)
<1>1. cmd.op \in {"add", "use", "remove"}
  BY DEF CanEdit, ForProfiles
<1>. QED
  BY <1>1, AddKeepsSound, OtherEditsKeepSound DEF Settings!EditedConfig

\* More keys do no harm.
LEMMA MoreKeys ==
    ASSUME NEW config, NEW keys, NEW more, SoundProfiles(config, keys), keys \subseteq more
    PROVE  SoundProfiles(config, more)
BY DEF SoundProfiles

\* Commands that are the same, begin, or are cut short leave sound profiles sound.
LEMMA CommandsRest ==
    ASSUME SettingsInv, UNCHANGED <<settings, expected, overwritten, deleted>>,
           client' = [c \in Clients |-> client'[c]],
           \A c \in Clients :
              /\ CommandTyped(c)'
              /\ \/ client'[c].pc = "idle"
                 \/ /\ client'[c].pc = client[c].pc
                    /\ Head(client'[c].edits) = Head(client[c].edits)
                    /\ client'[c].copy = client[c].copy
                    /\ client'[c].cmd.op = client[c].cmd.op
                    /\ client'[c].cmd.entry = client[c].cmd.entry
                    /\ client'[c].cmd.ref = client[c].cmd.ref
                 \/ /\ client'[c].pc = "load"
                    /\ EditsFile(c, "config")' /\ client'[c].cmd.op = "add" =>
                          client'[c].cmd.ref # "value"
    PROVE  SettingsInv'
<1>1. SettingsTypes'
  BY DEF SettingsInv, SettingsTypes
<1>2. FilesKept'
  <2>1. ASSUME NEW c \in Clients, NEW f \in SettingsFiles, Writes(c, f)'
        PROVE  Writes(c, f) /\ client'[c].copy = client[c].copy
    BY <2>1 DEF Writes
  <2>. QED
    BY <2>1 DEF SettingsInv, FilesKept, FileKept
<1>3. ProfilesSound'
  <2>1. SoundProfiles(Read("config", settings.config), KeysStored)'
    BY DEF SettingsInv, ProfilesSound, Read, KeysStored
  <2>2. ASSUME NEW c \in Clients, EditsFile(c, "config")'
        PROVE  /\ client'[c].cmd.op = "add" /\ client'[c].cmd.ref = "value" =>
                      client'[c].cmd.entry \in KeysStored'
               /\ client'[c].pc \in {"write", "fill"} =>
                      /\ SoundProfiles(Read("config", client'[c].copy), KeysStored')
                      /\ CanEdit(client'[c].cmd, Read("config", client'[c].copy), KeysStored')
    <3>1. KeysStored' = KeysStored
      BY DEF KeysStored
    <3>2. CASE client'[c].pc = "load"
               /\ (EditsFile(c, "config")' /\ client'[c].cmd.op = "add" =>
                          client'[c].cmd.ref # "value")
      BY <2>2, <3>2
    <3>3. CASE /\ client'[c].pc = client[c].pc
               /\ Head(client'[c].edits) = Head(client[c].edits)
               /\ client'[c].copy = client[c].copy
               /\ client'[c].cmd.op = client[c].cmd.op
               /\ client'[c].cmd.entry = client[c].cmd.entry
               /\ client'[c].cmd.ref = client[c].cmd.ref
      <4>1. EditsFile(c, "config")
        BY <2>2, <3>3 DEF EditsFile
      <4>2. /\ client[c].cmd.op = "add" /\ client[c].cmd.ref = "value" =>
                  client[c].cmd.entry \in KeysStored
            /\ client[c].pc \in {"write", "fill"} =>
                  /\ SoundProfiles(Read("config", client[c].copy), KeysStored)
                  /\ CanEdit(client[c].cmd, Read("config", client[c].copy), KeysStored)
        BY <4>1 DEF SettingsInv, ProfilesSound
      <4>3. client[c].pc \in {"write", "fill"} =>
               CanEdit(client'[c].cmd, Read("config", client[c].copy), KeysStored)
        BY <3>3, <4>2 DEF CanEdit, ForProfiles
      <4>. QED
        BY <3>1, <3>3, <4>2, <4>3
    <3>. QED
      BY <2>2, <3>2, <3>3 DEF EditsFile
  <2>. QED
    BY <2>1, <2>2 DEF ProfilesSound, EditsFile
<1>. QED
  BY <1>1, <1>2, <1>3 DEF SettingsInv

\* A client becomes r, the others rest.
OneClient(c, r) == /\ client'[c] = r
                   /\ \A d \in Clients : d # c => client'[d] = client[d]
                   /\ client' = [d \in Clients |-> client'[d]]

\* A step of one client leaves the others' records alone.
LEMMA ClientBecomes ==
    ASSUME SettingsInv, NEW c \in Clients, NEW r, client' = [client EXCEPT ![c] = r]
    PROVE  OneClient(c, r)
BY DEF OneClient, SettingsInv, SettingsTypes

\* A new command keeps the invariant: it touches no file.
LEMMA CommandKeepsSettings ==
    ASSUME SettingsInv, NEW c \in Clients, Settings!Command(c)
    PROVE  SettingsInv'
<1>1. PICK cmd \in Settings!RepoCommands \cup Settings!LlmCommands \cup Settings!SecretCommands :
          client' = [client EXCEPT ![c] =
               [cmd |-> cmd,
                key |-> IF cmd.op \in {"set", "unset"} THEN cmd.entry ELSE Settings!Ref(cmd),
                edits |-> Settings!EditsOf(cmd), pc |-> "load", copy |-> Torn]]
  BY DEF Settings!Command
<1>2. PICK r : r = [cmd |-> cmd,
                key |-> IF cmd.op \in {"set", "unset"} THEN cmd.entry ELSE Settings!Ref(cmd),
                edits |-> Settings!EditsOf(cmd), pc |-> "load", copy |-> Torn]
  OBVIOUS
<1>3. OneClient(c, r)
  BY <1>1, <1>2, ClientBecomes
<1>4. \/ ForProfiles(cmd)
      \/ cmd.op \in {"set", "unset"}
  BY DEF ForProfiles, Settings!RepoCommands, Settings!LlmCommands, Settings!SecretCommands,
     Settings!ProfileCommands, Settings!Entries, Settings!Kinds
<1>5. /\ client'[c].cmd = cmd /\ client'[c].pc = "load"
      /\ client'[c].edits = Settings!EditsOf(cmd)
      /\ client'[c].key = IF cmd.op \in {"set", "unset"} THEN cmd.entry ELSE Settings!Ref(cmd)
  BY <1>2, <1>3 DEF OneClient
<1>6. CommandTyped(c)'
  <2>1. CASE cmd.op \in {"set", "unset"}
    BY <1>5, <2>1 DEF CommandTyped, Settings!EditsOf
  <2>2. CASE ForProfiles(cmd) /\ cmd.op = "add" /\ cmd.ref = "value"
    BY <1>5, <2>2 DEF CommandTyped, Settings!EditsOf, StoresKeyOf, Settings!Ref,
       Settings!build_key_ref
  <2>3. CASE ForProfiles(cmd) /\ ~(cmd.op = "add" /\ cmd.ref = "value")
    <3>1. Settings!EditsOf(cmd) = <<"config">>
      BY <2>3 DEF ForProfiles, Settings!EditsOf
    <3>. QED
      BY <1>5, <2>3, <3>1 DEF CommandTyped
  <2>. QED
    BY <1>4, <2>1, <2>2, <2>3
<1>7. EditsFile(c, "config")' /\ client'[c].cmd.op = "add" => client'[c].cmd.ref # "value"
  BY <1>5 DEF EditsFile, Settings!EditsOf
<1>8. \A d \in Clients : d # c => client'[d] = client[d] /\ CommandTyped(d)'
  BY <1>3 DEF OneClient, SettingsInv, SettingsTypes, CommandTyped, StoresKeyOf
<1>9. client' = [d \in Clients |-> client'[d]]
  BY <1>3 DEF OneClient
<1>10. UNCHANGED <<settings, expected, overwritten, deleted>>
  BY DEF Settings!Command
<1>11. \A d \in Clients :
              /\ CommandTyped(d)'
              /\ \/ client'[d].pc = "idle"
                 \/ /\ client'[d].pc = client[d].pc
                    /\ Head(client'[d].edits) = Head(client[d].edits)
                    /\ client'[d].copy = client[d].copy
                    /\ client'[d].cmd.op = client[d].cmd.op
                    /\ client'[d].cmd.entry = client[d].cmd.entry
                    /\ client'[d].cmd.ref = client[d].cmd.ref
                 \/ /\ client'[d].pc = "load"
                    /\ EditsFile(d, "config")' /\ client'[d].cmd.op = "add" =>
                          client'[d].cmd.ref # "value"
  BY <1>5, <1>6, <1>7, <1>8
<1>. QED
  BY <1>9, <1>10, <1>11, CommandsRest

\* A command line dies, or the gateway does.
LEMMA DeathKeepsSettings ==
    ASSUME SettingsInv,
           Settings!GatewayDies \/ \E c \in Clients : Settings!ClientDies(c)
    PROVE  SettingsInv'
<1>1. UNCHANGED <<settings, expected, overwritten, deleted>>
  BY DEF Settings!GatewayDies, Settings!ClientDies
<1>2. \A c \in Clients : CommandTyped(c)
  BY DEF SettingsInv, SettingsTypes
<1>3. ASSUME NEW c \in Clients, client'[c] = client[c] PROVE CommandTyped(c)'
  BY <1>2, <1>3 DEF CommandTyped, StoresKeyOf
<1>4. ASSUME NEW c \in Clients, client'[c] = Settings!Idle
      PROVE  CommandTyped(c)' /\ client'[c].pc = "idle"
  BY <1>4 DEF CommandTyped, Settings!Idle
<1>5. CASE Settings!GatewayDies
  <2>1. /\ client' = [c \in Clients |-> client'[c]]
        /\ \A c \in Clients : client'[c] = Settings!Idle \/ client'[c] = client[c]
    BY <1>5 DEF Settings!GatewayDies
  <2>. QED
    BY <1>1, <1>3, <1>4, <2>1, CommandsRest
<1>6. ASSUME NEW c \in Clients, Settings!ClientDies(c) PROVE SettingsInv'
  <2>1. PICK r : r = IF Settings!AtGateway(c) THEN Settings!LastEdit(c) ELSE Settings!Idle
    OBVIOUS
  <2>2. client' = [client EXCEPT ![c] = r] /\ client[c].pc # "idle"
    BY <1>6, <2>1 DEF Settings!ClientDies
  <2>3. OneClient(c, r)
    BY <2>2, ClientBecomes
  <2>4. \A d \in Clients : d # c => client'[d] = client[d] /\ CommandTyped(d)'
    BY <1>3, <2>3 DEF OneClient
  <2>5. CASE r = Settings!Idle
    <3>1. CommandTyped(c)' /\ client'[c].pc = "idle"
      BY <1>4, <2>3, <2>5 DEF OneClient
    <3>. QED
      BY <1>1, <2>3, <2>4, <3>1, CommandsRest DEF OneClient
  <2>6. CASE Settings!AtGateway(c)
    <3>1. /\ r.pc = client[c].pc /\ r.edits = <<Head(client[c].edits)>>
          /\ r.copy = client[c].copy
          /\ r.cmd.op = client[c].cmd.op /\ r.cmd.entry = client[c].cmd.entry
          /\ r.cmd.ref = client[c].cmd.ref
      <4>1. PICK cmd : cmd = client[c].cmd
        OBVIOUS
      <4>2. r = [client[c] EXCEPT !.edits = <<Head(client[c].edits)>>,
                          !.cmd = IF cmd.op = "remove" THEN [cmd EXCEPT !.flag = FALSE] ELSE cmd]
        BY <2>1, <2>6, <4>1 DEF Settings!LastEdit
      <4>. QED
        BY <4>1, <4>2
    <3>2. CommandTyped(c)'
      <4>1. \/ client[c].edits = <<"config">> /\ ForProfiles(client[c].cmd)
            \/ client[c].edits \in {<<"secrets">>, <<"secrets", "config">>}
        BY <1>2, <2>2 DEF CommandTyped
      <4>2. CASE client[c].edits = <<"config">> /\ ForProfiles(client[c].cmd)
        BY <1>2, <2>3, <3>1, <4>2 DEF OneClient, CommandTyped, ForProfiles
      <4>3. CASE client[c].edits \in {<<"secrets">>, <<"secrets", "config">>}
        <5>1. r.edits = <<"secrets">>
          BY <3>1, <4>3
        <5>. QED
          BY <1>2, <2>3, <3>1, <5>1 DEF OneClient, CommandTyped
      <4>. QED
        BY <4>1, <4>2, <4>3
    <3>3. Head(r.edits) = Head(client[c].edits)
      BY <3>1
    <3>. QED
      BY <1>1, <2>3, <2>4, <3>1, <3>2, <3>3, CommandsRest DEF OneClient
  <2>. QED
    BY <2>1, <2>5, <2>6
<1>. QED
  BY <1>5, <1>6

\* A load keeps the invariant: the copy is the file's content of the moment, sound
\* profiles among the keys stored so far.
LEMMA LoadKeepsSettings ==
    ASSUME SettingsInv, NEW c \in Clients, Settings!Load(c)
    PROVE  SettingsInv'
<1>1. PICK f : f = Head(client[c].edits)
  OBVIOUS
<1>2. PICK cmd : cmd = client[c].cmd
  OBVIOUS
<1>3. /\ client[c].pc = "load"
      /\ client' = [client EXCEPT ![c] =
               IF /\ f = "config" /\ cmd.op \in {"use", "remove"}
                  /\ ~Settings!Has(Settings!_load_json_file(f), cmd.entry)
               THEN Settings!Idle
               ELSE [client[c] EXCEPT !.pc = "write", !.copy = settings[f]]]
      /\ UNCHANGED <<settings, expected, overwritten, deleted>>
  BY <1>1, <1>2 DEF Settings!Load
<1>4. PICK r : /\ client' = [client EXCEPT ![c] = r]
               /\ \/ r = Settings!Idle
                  \/ /\ r = [client[c] EXCEPT !.pc = "write", !.copy = settings[f]]
                     /\ f = "config" /\ cmd.op \in {"use", "remove"} =>
                            Settings!Has(Settings!_load_json_file(f), cmd.entry)
  BY <1>3
<1>5. OneClient(c, r)
  BY <1>4, ClientBecomes
<1>6. \A d \in Clients : d # c => client'[d] = client[d] /\ CommandTyped(d)'
  BY <1>5 DEF OneClient, SettingsInv, SettingsTypes, CommandTyped, StoresKeyOf
<1>7. CASE r = Settings!Idle
  <2>1. CommandTyped(c)' /\ client'[c].pc = "idle"
    BY <1>5, <1>7 DEF OneClient, CommandTyped, Settings!Idle
  <2>. QED
    BY <1>3, <1>5, <1>6, <2>1, CommandsRest DEF OneClient
<1>8. CASE /\ r = [client[c] EXCEPT !.pc = "write", !.copy = settings[f]]
           /\ f = "config" /\ cmd.op \in {"use", "remove"} =>
                   Settings!Has(Settings!_load_json_file(f), cmd.entry)
  <2>1. /\ client'[c].pc = "write" /\ client'[c].copy = settings[f]
        /\ client'[c].cmd = cmd /\ client'[c].edits = client[c].edits
        /\ client'[c].key = client[c].key
    <3>1. /\ r.pc = "write" /\ r.copy = settings[f] /\ r.cmd = cmd
          /\ r.edits = client[c].edits /\ r.key = client[c].key
      BY <1>2, <1>8, <1>3 DEF SettingsInv, SettingsTypes
    <3>. QED
      BY <1>5, <3>1 DEF OneClient
  <2>2. SettingsTypes'
    <3>1. CommandTyped(c)'
      BY <1>2, <1>3, <2>1 DEF SettingsInv, SettingsTypes, CommandTyped, StoresKeyOf
    <3>. QED
      BY <1>3, <1>5, <1>6, <3>1 DEF SettingsInv, SettingsTypes, OneClient
  <2>3. FilesKept'
    <3>1. ASSUME NEW d \in Clients, NEW g \in SettingsFiles, Writes(d, g)'
          PROVE  Writes(d, g) /\ client'[d].copy = client[d].copy
      BY <1>6, <2>1, <3>1 DEF Writes
    <3>2. UNCHANGED <<settings, expected, overwritten>>
      BY <1>3
    <3>. QED
      BY <3>1, <3>2 DEF SettingsInv, FilesKept, FileKept
  <2>4. KeysStored' = KeysStored
    BY <1>3 DEF KeysStored
  <2>5. SoundProfiles(Read("config", settings.config), KeysStored)
    BY DEF SettingsInv, ProfilesSound
  <2>6. ASSUME NEW d \in Clients, EditsFile(d, "config")'
        PROVE  /\ client'[d].cmd.op = "add" /\ client'[d].cmd.ref = "value" =>
                      client'[d].cmd.entry \in KeysStored
               /\ client'[d].pc \in {"write", "fill"} =>
                      /\ SoundProfiles(Read("config", client'[d].copy), KeysStored)
                      /\ CanEdit(client'[d].cmd, Read("config", client'[d].copy), KeysStored)
    <3>1. CASE d # c
      BY <1>6, <2>6, <3>1 DEF SettingsInv, ProfilesSound, EditsFile
    <3>2. CASE d = c
      <4>1. f = "config" /\ EditsFile(c, "config")
        BY <1>1, <1>3, <2>1, <2>6, <3>2 DEF EditsFile
      <4>2. /\ ForProfiles(cmd)
            /\ cmd.op = "add" /\ cmd.ref = "value" => cmd.entry \in KeysStored
        BY <1>1, <1>2, <1>3, <4>1 DEF SettingsInv, SettingsTypes, CommandTyped, ProfilesSound
      <4>3. Settings!_load_json_file(f) = Read("config", client'[c].copy)
        BY <2>1, <4>1 DEF Settings!_load_json_file, Read
      <4>4. CanEdit(cmd, Read("config", client'[c].copy), KeysStored)
        BY <1>8, <4>1, <4>2, <4>3 DEF CanEdit
      <4>5. client'[c].copy = settings.config
        BY <2>1, <4>1
      <4>. QED
        BY <2>1, <2>5, <3>2, <4>2, <4>4, <4>5
    <3>. QED
      BY <3>1, <3>2
  <2>7. ProfilesSound'
    BY <1>3, <2>4, <2>5, <2>6 DEF ProfilesSound, Read
  <2>. QED
    BY <2>2, <2>3, <2>7 DEF SettingsInv
<1>. QED
  BY <1>4, <1>7, <1>8

\* The opening of a file keeps the invariant: a writer whose copy is no longer what the
\* file holds, or that finds it torn, spoils it.
LEMMA TruncateKeepsSettings ==
    ASSUME SettingsInv, NEW c \in Clients, Settings!Truncate(c)
    PROVE  SettingsInv'
<1>1. PICK f : f = Head(client[c].edits)
  OBVIOUS
<1>2. /\ client[c].pc = "write"
      /\ overwritten' = IF settings[f] # client[c].copy \/ settings[f] = Torn
                        THEN overwritten \cup {f} ELSE overwritten
      /\ settings' = [settings EXCEPT ![f] = Torn]
      /\ client' = [client EXCEPT ![c].pc = "fill"]
      /\ UNCHANGED <<expected, deleted>>
  BY <1>1 DEF Settings!Truncate
<1>3. PICK r : r = [client[c] EXCEPT !.pc = "fill"]
  OBVIOUS
<1>4. OneClient(c, r)
  <2>1. client' = [client EXCEPT ![c] = r]
    BY <1>2, <1>3
  <2>. QED
    BY <2>1, ClientBecomes
<1>5. \A d \in Clients : d # c => client'[d] = client[d] /\ CommandTyped(d)'
  BY <1>4 DEF OneClient, SettingsInv, SettingsTypes, CommandTyped, StoresKeyOf
<1>6. /\ client'[c].pc = "fill" /\ client'[c].copy = client[c].copy
      /\ client'[c].cmd = client[c].cmd /\ client'[c].edits = client[c].edits
      /\ client'[c].key = client[c].key
  <2>1. /\ r.pc = "fill" /\ r.copy = client[c].copy
        /\ r.cmd = client[c].cmd /\ r.edits = client[c].edits /\ r.key = client[c].key
    BY <1>2, <1>3
  <2>. QED
    BY <1>4, <2>1 DEF OneClient
<1>7. f \in SettingsFiles
  BY <1>1, <1>2 DEF SettingsInv, SettingsTypes, CommandTyped, SettingsFiles
<1>8. /\ \A g \in SettingsFiles : settings'[g] = IF g = f THEN Torn ELSE settings[g]
      /\ settings' = [g \in SettingsFiles |-> settings'[g]]
  <2>1. settings = [g \in SettingsFiles |-> settings[g]]
    BY DEF SettingsInv, SettingsTypes
  <2>2. settings' = [settings EXCEPT ![f] = Torn]
    BY <1>2
  <2>. QED
    BY <1>7, <2>1, <2>2
<1>9. SettingsTypes'
  <2>1. CommandTyped(c)'
    BY <1>2, <1>6 DEF SettingsInv, SettingsTypes, CommandTyped, StoresKeyOf
  <2>2. expected' = expected
    BY <1>2
  <2>. QED
    BY <1>4, <1>5, <1>8, <2>1, <2>2 DEF SettingsInv, SettingsTypes, OneClient
<1>10. FilesKept'
  <2>1. ASSUME NEW g \in SettingsFiles, g \notin overwritten' PROVE FileKept(g)'
    <3>1. FileKept(g) /\ g \notin overwritten /\ expected' = expected
      BY <1>2, <2>1 DEF SettingsInv, FilesKept
    <3>2. /\ settings[g] \in {Torn, expected[g]}
          /\ \A d \in Clients : Writes(d, g) =>
                /\ settings[g] = Torn /\ client[d].copy # Torn /\ client[d].copy = expected[g]
                /\ \A e \in Clients : Writes(e, g) => e = d
      BY <3>1 DEF FileKept
    <3>3. CASE g = f
      <4>1. settings[f] = client[c].copy /\ settings[f] # Torn
        BY <1>2, <2>1, <3>3
      <4>2. settings[f] = expected[f] /\ \A d \in Clients : ~Writes(d, f)
        BY <3>2, <3>3, <4>1
      <4>3. \A d \in Clients : Writes(d, f)' => d = c
        BY <1>5, <4>2 DEF Writes
      <4>4. settings'[f] = Torn
        BY <1>7, <1>8
      <4>. QED
        BY <1>6, <3>1, <3>3, <4>1, <4>2, <4>3, <4>4 DEF FileKept
    <3>4. CASE g # f
      <4>1. settings'[g] = settings[g]
        BY <1>8, <3>4
      <4>2. \A d \in Clients : Writes(d, g)' => Writes(d, g) /\ client'[d] = client[d]
        BY <1>1, <1>5, <1>6, <3>4 DEF Writes
      <4>. QED
        BY <3>1, <3>2, <4>1, <4>2 DEF FileKept
    <3>. QED
      BY <3>3, <3>4
  <2>2. ASSUME NEW g \in SettingsFiles, g \in overwritten' PROVE FileKept(g)'
    BY <2>2 DEF FileKept
  <2>. QED
    BY <2>1, <2>2 DEF FilesKept
<1>11. ProfilesSound'
  <2>1. KeysStored' = KeysStored
    BY <1>2 DEF KeysStored
  <2>2. SoundProfiles(Read("config", settings'.config), KeysStored)
    <3>1. settings'["config"] \in {Torn, settings["config"]}
      BY <1>8 DEF SettingsFiles
    <3>2. SoundProfiles(Read("config", settings.config), KeysStored)
      BY DEF SettingsInv, ProfilesSound
    <3>3. SoundProfiles(Settings!Empty.config, KeysStored)
      BY EmptyIsSound
    <3>. QED
      BY <3>1, <3>2, <3>3 DEF Read
  <2>3. ASSUME NEW d \in Clients, EditsFile(d, "config")'
        PROVE  /\ client'[d].cmd.op = "add" /\ client'[d].cmd.ref = "value" =>
                      client'[d].cmd.entry \in KeysStored
               /\ client'[d].pc \in {"write", "fill"} =>
                      /\ SoundProfiles(Read("config", client'[d].copy), KeysStored)
                      /\ CanEdit(client'[d].cmd, Read("config", client'[d].copy), KeysStored)
    <3>1. CASE d # c
      BY <1>5, <2>3, <3>1 DEF SettingsInv, ProfilesSound, EditsFile
    <3>2. CASE d = c
      <4>1. EditsFile(c, "config")
        BY <1>2, <1>6, <2>3, <3>2 DEF EditsFile
      <4>. QED
        BY <1>2, <1>6, <3>2, <4>1 DEF SettingsInv, ProfilesSound
    <3>. QED
      BY <3>1, <3>2
  <2>. QED
    BY <2>1, <2>2, <2>3 DEF ProfilesSound, Read
<1>. QED
  BY <1>9, <1>10, <1>11 DEF SettingsInv

\* The keys that were stored are still, there or among the deleted.
LEMMA FillStoresKeys ==
    ASSUME SettingsInv, NEW c \in Clients, Settings!Fill(c)
    PROVE  /\ KeysStored \subseteq KeysStored'
           /\ Head(client[c].edits) = "secrets" => client[c].key \in KeysStored'
<1>1. PICK f : f = Head(client[c].edits)
  OBVIOUS
<1>. DEFINE content == IF client[c].copy = Torn THEN Settings!Empty[f] ELSE client[c].copy
<1>0. PICK k : k = IF client[c].cmd.op = "remove" /\ f = "config"
                   THEN Settings!RefOf(content, client[c].cmd.entry) ELSE client[c].key
  OBVIOUS
<1>2. /\ expected' = [expected EXCEPT ![f] = Settings!Edited(c, f, expected[f])]
      /\ f = "config" => deleted' = deleted
      /\ f # "config" => deleted' = IF client[c].cmd.op \in {"add", "set"}
                                   THEN deleted \ {client[c].key} ELSE deleted \cup {client[c].key}
  <2>1. expected' = [expected EXCEPT ![f] = Settings!Edited(c, f, expected[f])]
    BY <1>1 DEF Settings!Fill
  <2>2. deleted' = IF f = "config" THEN deleted
                   ELSE IF client[c].cmd.op \in {"add", "set"}
                   THEN deleted \ {k} ELSE deleted \cup {k}
    BY <1>0, <1>1 DEF Settings!Fill
  <2>3. f # "config" => k = client[c].key
    BY <1>0
  <2>. QED
    BY <2>1, <2>2, <2>3
<1>3. f \in SettingsFiles /\ expected = [g \in SettingsFiles |-> expected[g]]
  BY <1>1 DEF SettingsInv, SettingsTypes, CommandTyped, SettingsFiles, Settings!Fill
<1>4. CASE f = "config"
  <2>1. expected'.secrets = expected.secrets
    BY <1>2, <1>3, <1>4 DEF SettingsFiles
  <2>. QED
    BY <1>1, <1>2, <1>4, <2>1 DEF KeysStored
<1>5. CASE f = "secrets"
  <2>1. expected'.secrets = Settings!EditedSecrets(c, expected.secrets)
    BY <1>2, <1>3, <1>5 DEF SettingsFiles, Settings!Edited
  <2>. QED
    BY <1>1, <1>2, <1>5, <2>1 DEF KeysStored, Settings!EditedSecrets
<1>. QED
  BY <1>3, <1>4, <1>5 DEF SettingsFiles

\* The write of a file keeps the invariant: it is the edited copy, which is what the
\* edits make of the file unless the file is spoiled.
LEMMA FillKeepsSettings ==
    ASSUME SettingsInv, NEW c \in Clients, Settings!Fill(c)
    PROVE  SettingsInv'
<1>1. PICK f : f = Head(client[c].edits)
  OBVIOUS
<1>2. PICK content : content = IF client[c].copy = Torn THEN Settings!Empty[f] ELSE client[c].copy
  OBVIOUS
<1>3. PICK remaining : remaining = Settings!EditsAfter(c, content)
  OBVIOUS
<1>4. /\ client[c].pc = "fill"
      /\ settings' = [settings EXCEPT ![f] = Settings!Edited(c, f, content)]
      /\ expected' = [expected EXCEPT ![f] = Settings!Edited(c, f, expected[f])]
      /\ overwritten' = overwritten
  BY <1>1, <1>2 DEF Settings!Fill
<1>0. PICK k : k = IF client[c].cmd.op = "remove" /\ f = "config"
                   THEN Settings!RefOf(content, client[c].cmd.entry) ELSE client[c].key
  OBVIOUS
<1>5. client' = [client EXCEPT ![c] =
          IF remaining = <<>> THEN Settings!Idle
          ELSE [client[c] EXCEPT !.edits = remaining, !.pc = "load", !.key = k, !.copy = Torn]]
  BY <1>0, <1>1, <1>2, <1>3 DEF Settings!Fill
<1>. DEFINE r == IF remaining = <<>> THEN Settings!Idle
                 ELSE [client[c] EXCEPT !.edits = remaining, !.pc = "load", !.key = k,
                                        !.copy = Torn]
<1>6. OneClient(c, r)
  BY <1>5, ClientBecomes
<1>. HIDE DEF r
<1>7. \A d \in Clients : d # c => client'[d] = client[d] /\ CommandTyped(d)'
  BY <1>6 DEF OneClient, SettingsInv, SettingsTypes, CommandTyped, StoresKeyOf
<1>8. /\ \/ client[c].edits = <<"config">> /\ ForProfiles(client[c].cmd)
         \/ client[c].edits = <<"secrets">>
         \/ client[c].edits = <<"secrets", "config">> /\ ForProfiles(client[c].cmd) /\ StoresKeyOf(c)
      /\ settings = [g \in SettingsFiles |-> settings[g]]
      /\ expected = [g \in SettingsFiles |-> expected[g]]
  BY <1>4 DEF SettingsInv, SettingsTypes, CommandTyped
<1>9. f \in SettingsFiles
  BY <1>1, <1>8 DEF SettingsFiles
<1>10. /\ \A g \in SettingsFiles : settings'[g] =
             IF g = f THEN Settings!Edited(c, f, content) ELSE settings[g]
       /\ \A g \in SettingsFiles : expected'[g] =
             IF g = f THEN Settings!Edited(c, f, expected[f]) ELSE expected[g]
       /\ settings' = [g \in SettingsFiles |-> settings'[g]]
       /\ expected' = [g \in SettingsFiles |-> expected'[g]]
  BY <1>4, <1>8, <1>9
<1>11. /\ remaining \in {<<>>, <<"secrets">>, <<"config">>}
       /\ remaining = <<"config">> => /\ client[c].edits = <<"secrets", "config">>
                                 /\ ForProfiles(client[c].cmd) /\ StoresKeyOf(c)
  <2>1. remaining \in {<<"secrets">>, Tail(client[c].edits)}
    BY <1>3 DEF Settings!EditsAfter
  <2>2. /\ Tail(<<"config">>) = <<>> /\ Tail(<<"secrets">>) = <<>>
        /\ Tail(<<"secrets", "config">>) = <<"config">>
    OBVIOUS
  <2>3. <<"secrets">> # <<"config">> /\ <<>> # <<"config">>
    OBVIOUS
  <2>. QED
    BY <1>8, <2>1, <2>2, <2>3
<1>12. /\ CommandTyped(c)' /\ client'[c].pc \in {"idle", "load"}
       /\ EditsFile(c, "config")' => /\ remaining = <<"config">> /\ client'[c].cmd = client[c].cmd
  <2>1. CASE remaining = <<>>
    <3>1. client'[c].pc = "idle"
      BY <1>6, <2>1 DEF OneClient, Settings!Idle, r
    <3>. QED
      BY <3>1 DEF CommandTyped, EditsFile
  <2>2. CASE remaining # <<>>
    <3>1. r.pc = "load" /\ r.edits = remaining /\ r.cmd = client[c].cmd /\ r.key = k
      <4>1. r = [client[c] EXCEPT !.edits = remaining, !.pc = "load", !.key = k, !.copy = Torn]
        BY <2>2 DEF r
      <4>. QED
        BY <1>4, <4>1
    <3>2. client'[c] = r
      BY <1>6 DEF OneClient
    <3>3. CASE remaining = <<"secrets">>
      BY <3>1, <3>2, <3>3 DEF CommandTyped, EditsFile
    <3>4. CASE remaining = <<"config">>
      BY <1>11, <3>1, <3>2, <3>4 DEF CommandTyped, EditsFile
    <3>. QED
      BY <1>11, <2>2, <3>3, <3>4
  <2>. QED
    BY <2>1, <2>2
<1>13. SettingsTypes'
  BY <1>6, <1>7, <1>10, <1>12 DEF SettingsTypes, OneClient
<1>14. FilesKept'
  <2>1. ASSUME NEW g \in SettingsFiles, g \notin overwritten PROVE FileKept(g)'
    <3>1. /\ settings[g] \in {Torn, expected[g]}
          /\ \A d \in Clients : Writes(d, g) =>
                /\ settings[g] = Torn /\ client[d].copy # Torn /\ client[d].copy = expected[g]
                /\ \A e \in Clients : Writes(e, g) => e = d
      BY <2>1 DEF SettingsInv, FilesKept, FileKept
    <3>2. \A d \in Clients : Writes(d, g)' => d # c /\ Writes(d, g) /\ client'[d] = client[d]
      BY <1>7, <1>12 DEF Writes
    <3>3. CASE g = f
      <4>1. Writes(c, f)
        BY <1>1, <1>4 DEF Writes
      <4>2. content = expected[f]
        BY <1>2, <3>1, <3>3, <4>1
      <4>3. settings'[f] = expected'[f]
        BY <1>9, <1>10, <4>2
      <4>4. \A d \in Clients : ~Writes(d, f)'
        BY <3>1, <3>2, <3>3, <4>1
      <4>. QED
        BY <3>3, <4>3, <4>4 DEF FileKept
    <3>4. CASE g # f
      <4>1. settings'[g] = settings[g] /\ expected'[g] = expected[g]
        BY <1>10, <3>4
      <4>. QED
        BY <3>1, <3>2, <4>1 DEF FileKept
    <3>. QED
      BY <3>3, <3>4
  <2>2. ASSUME NEW g \in SettingsFiles, g \in overwritten PROVE FileKept(g)'
    BY <1>4, <2>2 DEF FileKept
  <2>. QED
    BY <2>1, <2>2 DEF FilesKept
<1>15. ProfilesSound'
  <2>1. KeysStored \subseteq KeysStored' /\ (f = "secrets" => client[c].key \in KeysStored')
    BY <1>1, FillStoresKeys
  <2>2. SoundProfiles(Read("config", settings'.config), KeysStored')
    <3>1. CASE f = "config"
      <4>1. EditsFile(c, "config")
        BY <1>1, <1>4, <3>1 DEF EditsFile
      <4>2. /\ SoundProfiles(content, KeysStored)
            /\ CanEdit(client[c].cmd, content, KeysStored)
        BY <1>2, <1>4, <3>1, <4>1 DEF SettingsInv, ProfilesSound, Read
      <4>3. SoundProfiles(Settings!EditedConfig(client[c].cmd, content), KeysStored')
        BY <2>1, <4>2, EditKeepsSound, MoreKeys
      <4>4. settings'["config"] = Settings!EditedConfig(client[c].cmd, content)
        BY <1>9, <1>10, <3>1 DEF Settings!Edited
      <4>5. SoundProfiles(Settings!Empty.config, KeysStored')
        BY EmptyIsSound
      <4>. QED
        BY <4>3, <4>4, <4>5 DEF Read
    <3>2. CASE f # "config"
      <4>1. settings'["config"] = settings["config"]
        BY <1>10, <3>2 DEF SettingsFiles
      <4>2. SoundProfiles(Read("config", settings.config), KeysStored)
        BY DEF SettingsInv, ProfilesSound
      <4>. QED
        BY <2>1, <4>1, <4>2, MoreKeys DEF Read
    <3>. QED
      BY <3>1, <3>2
  <2>3. ASSUME NEW d \in Clients, EditsFile(d, "config")'
        PROVE  /\ client'[d].cmd.op = "add" /\ client'[d].cmd.ref = "value" =>
                      client'[d].cmd.entry \in KeysStored'
               /\ client'[d].pc \in {"write", "fill"} =>
                      /\ SoundProfiles(Read("config", client'[d].copy), KeysStored')
                      /\ CanEdit(client'[d].cmd, Read("config", client'[d].copy), KeysStored')
    <3>1. CASE d # c
      <4>1. client'[d] = client[d] /\ EditsFile(d, "config")
        BY <1>7, <2>3, <3>1 DEF EditsFile
      <4>2. /\ client[d].cmd.op = "add" /\ client[d].cmd.ref = "value" =>
                  client[d].cmd.entry \in KeysStored
            /\ client[d].pc \in {"write", "fill"} =>
                  /\ SoundProfiles(Read("config", client[d].copy), KeysStored)
                  /\ CanEdit(client[d].cmd, Read("config", client[d].copy), KeysStored)
        BY <4>1 DEF SettingsInv, ProfilesSound
      <4>3. client[d].pc \in {"write", "fill"} =>
                  /\ SoundProfiles(Read("config", client[d].copy), KeysStored')
                  /\ CanEdit(client[d].cmd, Read("config", client[d].copy), KeysStored')
        BY <2>1, <4>2, MoreKeys DEF CanEdit
      <4>. QED
        BY <2>1, <4>1, <4>2, <4>3
    <3>2. CASE d = c
      <4>1. remaining = <<"config">> /\ client'[c].cmd = client[c].cmd /\ client'[c].pc \in {"idle", "load"}
        BY <1>12, <2>3, <3>2
      <4>2. f = "secrets" /\ client[c].key = client[c].cmd.entry
        BY <1>1, <1>11, <4>1 DEF StoresKeyOf
      <4>. QED
        BY <2>1, <3>2, <4>1, <4>2
    <3>. QED
      BY <3>1, <3>2
  <2>. QED
    BY <2>2, <2>3 DEF ProfilesSound, Read
<1>. QED
  BY <1>13, <1>14, <1>15 DEF SettingsInv

\* The invariant holds of empty files.
LEMMA SettingsInit == Settings!Init => SettingsInv
<1>. SUFFICES ASSUME Settings!Init PROVE SettingsInv
  OBVIOUS
<1>1. /\ settings = Settings!Empty /\ expected = Settings!Empty
      /\ client = [c \in Clients |-> Settings!Idle] /\ deleted = {}
  BY DEF Settings!Init
<1>2. \A c \in Clients : client[c].pc = "idle"
  BY <1>1 DEF Settings!Idle
<1>3. SettingsTypes
  BY <1>1, <1>2 DEF SettingsTypes, CommandTyped, Settings!Empty, SettingsFiles
<1>4. FilesKept
  BY <1>1, <1>2 DEF FilesKept, FileKept, Writes
<1>5. SoundProfiles(Settings!Empty.config, KeysStored)
  BY EmptyIsSound
<1>6. Read("config", settings.config) = Settings!Empty.config
  BY <1>1 DEF Read
<1>7. ProfilesSound
  BY <1>2, <1>5, <1>6 DEF ProfilesSound, EditsFile
<1>. QED
  BY <1>3, <1>4, <1>7 DEF SettingsInv

\* Every step keeps the invariant.
LEMMA SettingsStep ==
    ASSUME SettingsInv, [Settings!Next]_Settings!vars
    PROVE  SettingsInv'
<1>1. ASSUME UNCHANGED Settings!vars PROVE SettingsInv'
  <2>1. UNCHANGED <<settings, expected, overwritten, deleted, client>>
    BY <1>1 DEF Settings!vars
  <2>2. \A c \in Clients : CommandTyped(c)'
    BY <2>1 DEF SettingsInv, SettingsTypes, CommandTyped, StoresKeyOf
  <2>3. client' = [c \in Clients |-> client'[c]]
    BY <2>1 DEF SettingsInv, SettingsTypes
  <2>. QED
    BY <2>1, <2>2, <2>3, CommandsRest
<1>2. ASSUME NEW c \in Clients,
             Settings!Command(c) \/ Settings!Load(c) \/ Settings!Truncate(c) \/ Settings!Fill(c)
      PROVE  SettingsInv'
  BY <1>2, CommandKeepsSettings, LoadKeepsSettings, TruncateKeepsSettings, FillKeepsSettings
<1>3. ASSUME Settings!GatewayDies \/ \E c \in Clients : Settings!ClientDies(c)
      PROVE  SettingsInv'
  BY <1>3, DeathKeepsSettings
<1>. QED
  BY <1>1, <1>2, <1>3 DEF Settings!Next

\* The invariant implies the property.
LEMMA SettingsImplied == SettingsInv => Settings!SettingsAreKept
<1>. SUFFICES ASSUME SettingsInv PROVE Settings!SettingsAreKept
  OBVIOUS
<1>1. Settings!EditsAreKept
  BY DEF SettingsInv, FilesKept, FileKept, SettingsFiles, Settings!EditsAreKept
<1>2. SoundProfiles(Settings!_load_json_file("config"), KeysStored)
  BY DEF SettingsInv, ProfilesSound, Read, Settings!_load_json_file
<1>3. Settings!DefaultsExist
  BY <1>2 DEF SoundProfiles, Settings!DefaultsExist
<1>4. settings["secrets"] \in {Torn, expected["secrets"]} \/ "secrets" \in overwritten
  BY <1>1 DEF Settings!EditsAreKept
<1>5. Settings!KeysComeFirst
  <2>1. ASSUME NEW p \in Settings!_load_json_file("config").profiles, p.ref = p.entry
        PROVE  p.ref \in expected.secrets \cup deleted
    BY <1>2, <2>1 DEF SoundProfiles, KeysStored
  <2>2. \/ Settings!_load_json_file("secrets") = expected.secrets
        \/ settings.secrets = Torn \/ "secrets" \in overwritten
    BY <1>4 DEF Settings!_load_json_file
  <2>. QED
    BY <2>1, <2>2 DEF Settings!KeysComeFirst
<1>. QED
  BY <1>1, <1>3, <1>5 DEF Settings!SettingsAreKept

-----------------------------------------------------------------------------
(* The cron dispatcher: scheduled runs of a job keep its interval unless two of its runs
   overlap, and no processed item vanishes *)

\* A request is a record; it has a job while it runs one, and a clock that was read.
IsRequest(r) ==
    /\ r \in [pc : {r.pc}, clock : Nat, todo : {r.todo}, job : {r.job},
              trigger : {r.trigger}, triggers : SUBSET Items]
    /\ r.pc \in {"idle", "next"} => r.job = "none"

CronTyped ==
    /\ lastRun \in [Cron!JobNames -> Nat] /\ now \in 0 .. MaxTime
    /\ processed \in [Cron!JobNames -> SUBSET Items]
    /\ published \in [Cron!JobNames -> SUBSET Items]
    /\ dropped \in [Cron!JobNames -> SUBSET Items]
    /\ started \in [Cron!JobNames -> Seq(Nat)]
    /\ request = [t \in Threads |-> request[t]]
    /\ \A t \in Threads : IsRequest(request[t]) /\ request[t].clock <= now

StartedBy(j, time) == \A i \in DOMAIN started[j] : started[j][i] <= time

\* Of a job whose runs never overlapped: one thread runs it at a time, whose clock
\* no start is behind; nobody starts in the future; and when it rests its stamp is
\* that of its last run.
Alone(j) == \A t, u \in Threads : request[t].job = j /\ request[u].job = j => t = u
ClockIsLast(j) == \A t \in Threads : request[t].job = j => StartedBy(j, request[t].clock)
StampIsLast(j) ==
    ~Cron!Running(j) /\ started[j] # << >> => lastRun[j] # Cron!Never
    /\ StartedBy(j, lastRun[j])
Spaced(j) == \A i, k \in DOMAIN started[j] :
                i < k => Cron!Apart(started[j][i], started[j][k], Interval[j])

InTurn(j) == /\ Alone(j) /\ ClockIsLast(j) /\ StampIsLast(j) /\ Spaced(j)
             /\ StartedBy(j, now)

RunsInTurn == \A j \in Cron!JobNames \ overlapped : InTurn(j)

CronInv == CronTyped /\ RunsInTurn /\ Cron!ProcessedAreAccountedFor

\* A step that changes what one request does.
Becomes(t, r) == /\ request' = [request EXCEPT ![t] = r]
                 /\ IsRequest(r) /\ r.clock <= now'

ThreadsTyped == /\ request = [t \in Threads |-> request[t]]
                /\ \A t \in Threads : IsRequest(request[t]) /\ request[t].clock <= now

\* It leaves the others alone, and all of them requests.
LEMMA OthersKept ==
    ASSUME CronTyped, NEW t \in Threads, NEW r, Becomes(t, r), now' = now
    PROVE  /\ request'[t] = r
           /\ \A u \in Threads \ {t} : request'[u] = request[u]
           /\ ThreadsTyped'
<1>1. request'[t] = r /\ \A u \in Threads \ {t} : request'[u] = request[u]
  BY DEF CronTyped, Becomes
<1>2. request' = [u \in Threads |-> request'[u]]
  BY DEF CronTyped, Becomes
<1>3. ASSUME NEW u \in Threads PROVE IsRequest(request'[u]) /\ request'[u].clock <= now'
  BY <1>1 DEF CronTyped, Becomes
<1>. QED
  BY <1>1, <1>2, <1>3 DEF ThreadsTyped, IsRequest

\* The start of a run is one more number in the history of its job.
LEMMA AppendKeepsNumbers ==
    ASSUME NEW list \in Seq(Nat), NEW n \in Nat
    PROVE  /\ Append(list, n) \in Seq(Nat)
           /\ DOMAIN Append(list, n) = 1 .. Len(list) + 1 /\ DOMAIN list = 1 .. Len(list)
           /\ Len(list) \in Nat
           /\ \A i \in DOMAIN list : Append(list, n)[i] = list[i] /\ list[i] \in Nat
           /\ Append(list, n)[Len(list) + 1] = n
<1>. QED
  OBVIOUS

\* A request that waits has no job.
LEMMA IdleIsRequest == IsRequest(Cron!Idle) /\ Cron!Idle.job = "none" /\ Cron!Idle.clock = 0
<1>1. Cron!Idle \in [pc : {"idle"}, clock : Nat, todo : {<< >>}, job : {"none"},
               trigger : {"none"}, triggers : SUBSET Items]
  BY DEF Cron!Idle
<1>2. /\ Cron!Idle.pc = "idle" /\ Cron!Idle.clock = 0 /\ Cron!Idle.todo = << >>
      /\ Cron!Idle.job = "none" /\ Cron!Idle.trigger = "none"
  BY DEF Cron!Idle
<1>. QED
  BY <1>1, <1>2 DEF IsRequest

\* What a new request is, and a manual run.
LEMMA NewRequests ==
    ASSUME NEW r, IsRequest(r), r.job = "none", NEW time \in Nat, NEW ahead, NEW j
    PROVE  /\ IsRequest([r EXCEPT !.pc = "next", !.clock = time, !.todo = ahead])
           /\ IsRequest([r EXCEPT !.pc = "scan", !.clock = time, !.job = j,
              !.trigger = "manual"])
<1>1. IsRequest([r EXCEPT !.pc = "next", !.clock = time, !.todo = ahead])
  BY DEF IsRequest
<1>2. IsRequest([r EXCEPT !.pc = "scan", !.clock = time, !.job = j, !.trigger = "manual"])
  BY DEF IsRequest
<1>. QED
  BY <1>1, <1>2

\* What each handler of a request makes of it.
LEMMA RequestBegins ==
    ASSUME CronTyped, NEW t \in Threads, Cron!RunDue(t)
    PROVE  \E r : Becomes(t, r) /\ request[t].job = "none" /\ r.job = "none"
<1>. DEFINE r == [Cron!Idle EXCEPT !.pc = "next", !.clock = now, !.todo = Cron!Dispatcher]
<1>1. request[t].job = "none" /\ now \in Nat /\ now' = now
  BY DEF CronTyped, Cron!RunDue, Cron!Idle
<1>2. r.pc = "next" /\ r.clock = now /\ r.job = "none"
  BY IdleIsRequest DEF IsRequest
<1>3. IsRequest(r)
  BY <1>1, IdleIsRequest, NewRequests
<1>4. r.clock <= now'
  BY <1>1, <1>2
<1>5. request' = [request EXCEPT ![t] = r]
  BY DEF Cron!RunDue
<1>6. Becomes(t, r)
  BY <1>3, <1>4, <1>5 DEF Becomes
<1>. HIDE DEF r
<1>. QED
  BY <1>1, <1>2, <1>6 DEF Cron!RunDue

\* A walk that is over leaves the thread idle.
LEMMA WalkEnds ==
    ASSUME CronTyped, NEW t \in Threads, Cron!EndWalk(t)
    PROVE  Becomes(t, Cron!Idle) /\ request[t].job = "none" /\ Cron!Idle.job = "none"
<1>1. request[t].job = "none"
  BY DEF CronTyped, Cron!EndWalk, IsRequest
<1>2. IsRequest(Cron!Idle) /\ Cron!Idle.clock <= now'
  BY DEF CronTyped, Cron!EndWalk, IsRequest, Cron!Idle
<1>. QED
  BY <1>1, <1>2 DEF Cron!EndWalk, Becomes, Cron!Idle

\* Within a run, neither the job nor the clock changes.
LEMMA JobGoesOn ==
    ASSUME CronTyped, NEW t \in Threads, Cron!Scan(t) \/ Cron!Mark(t) \/ Cron!Publish(t)
    PROVE  \E r : Becomes(t, r) /\ r.job = request[t].job /\ r.clock = request[t].clock
<1>1. IsRequest(request[t]) /\ request[t].clock <= now
  BY DEF CronTyped
<1>2. CASE Cron!Scan(t)
  <2>1. PICK seen \in SUBSET Items :
            request' = [request EXCEPT ![t].pc = "mark",
                                     ![t].triggers = seen \ processed[request[t].job]]
    BY <1>2 DEF Cron!Scan
  <2>. DEFINE r == [request[t] EXCEPT !.pc = "mark",
                                     !.triggers = seen \ processed[request[t].job]]
  <2>2. request' = [request EXCEPT ![t] = r]
    BY <2>1 DEF CronTyped
  <2>3. IsRequest(r) /\ r.job = request[t].job /\ r.clock = request[t].clock
    BY <1>1 DEF IsRequest
  <2>4. now' = now
    BY <1>2 DEF Cron!Scan
  <2>. QED
    BY <1>1, <2>2, <2>3, <2>4 DEF Becomes
<1>3. CASE Cron!Mark(t)
  <2>. DEFINE r == [request[t] EXCEPT !.pc = "publish"]
  <2>1. request' = [request EXCEPT ![t] = r] /\ now' = now
    BY <1>3 DEF Cron!Mark, CronTyped
  <2>2. IsRequest(r) /\ r.job = request[t].job /\ r.clock = request[t].clock
    BY <1>1 DEF IsRequest
  <2>. QED
    BY <1>1, <2>1, <2>2 DEF Becomes
<1>4. CASE Cron!Publish(t)
  <2>1. PICK i \in request[t].triggers :
            request' = [request EXCEPT ![t].triggers = @ \ {i}]
    BY <1>4 DEF Cron!Publish
  <2>. DEFINE r == [request[t] EXCEPT !.triggers = @ \ {i}]
  <2>2. request' = [request EXCEPT ![t] = r]
    BY <2>1 DEF CronTyped
  <2>3. IsRequest(r) /\ r.job = request[t].job /\ r.clock = request[t].clock
    BY <1>1, <1>4 DEF IsRequest, Cron!Publish
  <2>4. now' = now
    BY <1>4 DEF Cron!Publish
  <2>. QED
    BY <1>1, <2>2, <2>3, <2>4 DEF Becomes
<1>. QED
  BY <1>2, <1>3, <1>4

\* The next job of a walk is passed over, or started because it is due.
LEMMA WalkGoesOn ==
    ASSUME CronTyped, NEW t \in Threads, Cron!NextJob(t)
    PROVE  /\ request[t].job = "none"
           /\ \E r : /\ Becomes(t, r) /\ r.clock = request[t].clock
                     /\ \/ r.job = "none" /\ UNCHANGED <<started, overlapped>>
                        \/ /\ Cron!IsDue(r.job, r.clock) /\ Cron!NoteStart(r.job)
                           /\ started' = [started EXCEPT ![r.job] = Append(@, r.clock)]
<1>. DEFINE j == Head(request[t].todo)
            walk == [request[t] EXCEPT !.todo = Tail(@)]
            busy == [walk EXCEPT !.pc = "scan", !.job = j, !.trigger = "schedule"]
<1>1. IsRequest(request[t]) /\ request[t].clock <= now /\ now' = now
  BY DEF CronTyped, Cron!NextJob
<1>2. request[t].job = "none"
  BY <1>1 DEF IsRequest, Cron!NextJob
<1>3. IsRequest(walk) /\ walk.job = "none" /\ walk.clock = request[t].clock
  BY <1>1, <1>2 DEF IsRequest
<1>4. IsRequest(busy) /\ busy.job = j /\ busy.clock = request[t].clock
  BY <1>1 DEF IsRequest
<1>5. CASE Cron!IsDue(j, request[t].clock)
  <2>1. request' = [request EXCEPT ![t] = busy] /\ Cron!NoteStart(j)
        /\ started' = [started EXCEPT ![j] = Append(@, request[t].clock)]
    BY <1>5 DEF Cron!NextJob
  <2>. QED
    BY <1>1, <1>2, <1>4, <1>5, <2>1 DEF Becomes
<1>6. CASE ~Cron!IsDue(j, request[t].clock)
  <2>1. request' = [request EXCEPT ![t] = walk] /\ UNCHANGED <<started, overlapped>>
    BY <1>6 DEF Cron!NextJob
  <2>. QED
    BY <1>1, <1>2, <1>3, <2>1 DEF Becomes
<1>. QED
  BY <1>5, <1>6

\* A manual run reads the clock when it starts.
LEMMA JobTriggered ==
    ASSUME CronTyped, NEW t \in Threads, NEW j \in Cron!JobNames, Cron!TriggerJob(t, j)
    PROVE  /\ request[t].job = "none"
           /\ \E r : Becomes(t, r) /\ r.clock = now /\ r.job = j /\ Cron!NoteStart(j)
<1>. DEFINE r == [Cron!Idle EXCEPT !.pc = "scan", !.clock = now, !.job = j,
     !.trigger = "manual"]
<1>1. request[t].job = "none" /\ now \in Nat /\ now' = now
  BY DEF CronTyped, Cron!TriggerJob, Cron!Idle
<1>2. r.pc = "scan" /\ r.clock = now /\ r.job = j
  BY IdleIsRequest DEF IsRequest
<1>3. IsRequest(r)
  BY <1>1, IdleIsRequest, NewRequests
<1>4. r.clock <= now'
  BY <1>1, <1>2
<1>5. request' = [request EXCEPT ![t] = r]
  BY DEF Cron!TriggerJob
<1>6. Becomes(t, r)
  BY <1>3, <1>4, <1>5 DEF Becomes
<1>. HIDE DEF r
<1>. QED
  BY <1>1, <1>2, <1>6 DEF Cron!TriggerJob

\* A run that ends, or raises, leaves its stamp.
LEMMA JobStamps ==
    ASSUME CronTyped, NEW t \in Threads, Cron!Stamped(t), now' = now
    PROVE  \E r : Becomes(t, r) /\ r.job = "none" /\ r.triggers = {}
<1>1. IsRequest(request[t]) /\ request[t].clock <= now /\ now \in Nat
  BY DEF CronTyped
<1>. DEFINE walk == [request[t] EXCEPT !.pc = "next", !.job = "none", !.triggers = {}]
<1>2. IsRequest(walk) /\ walk.clock <= now' /\ walk.job = "none" /\ walk.triggers = {}
  BY <1>1 DEF IsRequest
<1>3. IsRequest(Cron!Idle) /\ Cron!Idle.clock <= now' /\ Cron!Idle.job = "none"
      /\ Cron!Idle.triggers = {}
  BY <1>1 DEF IsRequest, Cron!Idle
<1>. QED
  BY <1>2, <1>3 DEF Cron!Stamped, Becomes

\* Every step keeps the types.
LEMMA TypedStep ==
    ASSUME Cron!CronAssumption, CronTyped, [Cron!Next]_Cron!vars
    PROVE  CronTyped'
<1>1. CronTyped <=> /\ ThreadsTyped
                 /\ lastRun \in [Cron!JobNames -> Nat] /\ now \in 0 .. MaxTime
                 /\ processed \in [Cron!JobNames -> SUBSET Items]
                 /\ published \in [Cron!JobNames -> SUBSET Items]
                 /\ dropped \in [Cron!JobNames -> SUBSET Items]
                 /\ started \in [Cron!JobNames -> Seq(Nat)]
  BY DEF CronTyped, ThreadsTyped
<1>2. \A t \in Threads : IsRequest(request[t]) /\ request[t].clock <= now
  BY DEF CronTyped
<1>3. ASSUME NEW t \in Threads, Cron!RunDue(t) PROVE CronTyped'
  <2>1. PICK r : Becomes(t, r)
    BY <1>3, RequestBegins
  <2>. QED
    BY <1>1, <1>3, <2>1, OthersKept DEF Cron!RunDue, CronTyped, ThreadsTyped
<1>4. ASSUME NEW t \in Threads, Cron!NextJob(t) PROVE CronTyped'
  <2>1. PICK r : /\ Becomes(t, r) /\ r.clock = request[t].clock
                 /\ \/ UNCHANGED started
                    \/ started' = [started EXCEPT ![r.job] = Append(@, r.clock)]
    BY <1>4, WalkGoesOn
  <2>2. r.clock \in Nat
    BY <2>1 DEF Becomes, IsRequest
  <2>3. \A list \in Seq(Nat) : Append(list, r.clock) \in Seq(Nat)
    BY <2>2, AppendKeepsNumbers
  <2>4. started' \in [Cron!JobNames -> Seq(Nat)]
    <3>1. ASSUME NEW j \in Cron!JobNames PROVE started'[j] \in Seq(Nat)
      <4>1. started[j] \in Seq(Nat) /\ Append(started[j], r.clock) \in Seq(Nat)
        BY <2>3 DEF CronTyped
      <4>. QED
        BY <2>1, <4>1 DEF CronTyped
    <3>2. started' = [j \in Cron!JobNames |-> started'[j]]
      BY <2>1 DEF CronTyped
    <3>. QED
      BY <3>1, <3>2
  <2>. QED
    BY <1>1, <1>4, <2>1, <2>4, OthersKept DEF Cron!NextJob, CronTyped, ThreadsTyped
<1>5. ASSUME NEW t \in Threads, Cron!EndWalk(t) PROVE CronTyped'
  BY <1>1, <1>5, WalkEnds, OthersKept DEF Cron!EndWalk, CronTyped, ThreadsTyped
<1>6. ASSUME NEW t \in Threads, NEW j \in Cron!JobNames, Cron!TriggerJob(t, j) PROVE CronTyped'
  <2>1. PICK r : Becomes(t, r)
    BY <1>6, JobTriggered
  <2>. QED
    BY <1>1, <1>6, <2>1, OthersKept DEF Cron!TriggerJob, CronTyped, ThreadsTyped
<1>7. ASSUME NEW t \in Threads, Cron!Scan(t) PROVE CronTyped'
  <2>1. PICK r : Becomes(t, r)
    BY <1>7, JobGoesOn
  <2>. QED
    BY <1>1, <1>7, <2>1, OthersKept DEF Cron!Scan, CronTyped, ThreadsTyped
<1>8. ASSUME NEW t \in Threads, Cron!Mark(t) PROVE CronTyped'
  <2>1. PICK r : Becomes(t, r)
    BY <1>8, JobGoesOn
  <2>2. processed' \in [Cron!JobNames -> SUBSET Items]
    BY <1>2, <1>8 DEF CronTyped, Cron!Mark, Cron!Marked, IsRequest
  <2>. QED
    BY <1>1, <1>8, <2>1, <2>2, OthersKept DEF Cron!Mark, CronTyped, ThreadsTyped
<1>9. ASSUME NEW t \in Threads, Cron!Publish(t) PROVE CronTyped'
  <2>1. PICK r : Becomes(t, r)
    BY <1>9, JobGoesOn
  <2>2. PICK i \in request[t].triggers :
            published' = [published EXCEPT ![request[t].job] = @ \cup {i}]
    BY <1>9 DEF Cron!Publish
  <2>3. i \in Items
    BY <1>2, <2>2 DEF IsRequest
  <2>4. published' \in [Cron!JobNames -> SUBSET Items]
    BY <2>2, <2>3 DEF CronTyped
  <2>. QED
    BY <1>1, <1>9, <2>1, <2>4, OthersKept DEF Cron!Publish, CronTyped, ThreadsTyped
<1>10. ASSUME NEW t \in Threads, Cron!EndJob(t) \/ Cron!JobRaises(t) PROVE CronTyped'
  <2>1. Cron!Stamped(t) /\ now' = now
    BY <1>10 DEF Cron!EndJob, Cron!JobRaises
  <2>2. PICK r : Becomes(t, r)
    BY <2>1, JobStamps
  <2>3. lastRun' \in [Cron!JobNames -> Nat]
    BY <1>2, <2>1 DEF CronTyped, Cron!Stamped, IsRequest
  <2>4. dropped' \in [Cron!JobNames -> SUBSET Items]
    <3>1. request[t].triggers \subseteq Items
      BY <1>2 DEF IsRequest
    <3>2. CASE Cron!EndJob(t)
      BY <3>2 DEF CronTyped, Cron!EndJob
    <3>3. CASE Cron!JobRaises(t)
      BY <3>1, <3>3 DEF CronTyped, Cron!JobRaises
    <3>. QED
      BY <1>10, <3>2, <3>3
  <2>. QED
    BY <1>1, <1>10, <2>1, <2>2, <2>3, <2>4, OthersKept
    DEF Cron!EndJob, Cron!JobRaises, CronTyped, ThreadsTyped
<1>11. CASE Cron!Tick
  <2>1. now' \in 0 .. MaxTime /\ now' = now + 1 /\ request' = request
    BY <1>11 DEF Cron!Tick, CronTyped, Cron!CronAssumption
  <2>2. \A t \in Threads : IsRequest(request'[t]) /\ request'[t].clock <= now'
    BY <1>2, <2>1 DEF CronTyped, IsRequest
  <2>. QED
    BY <1>1, <1>11, <2>1, <2>2 DEF Cron!Tick, CronTyped
<1>12. CASE Cron!Restart
  <2>1. IsRequest(Cron!Idle) /\ Cron!Idle.clock <= now /\ now' = now
    BY <1>12, IdleIsRequest DEF Cron!Restart, CronTyped
  <2>2. Cron!Never \in Nat
    BY DEF Cron!Never, Cron!CronAssumption
  <2>. QED
    BY <1>12, <2>1, <2>2 DEF Cron!Restart, CronTyped, IsRequest
<1>13. CASE UNCHANGED Cron!vars
  BY <1>13 DEF Cron!vars, CronTyped, IsRequest
<1>. QED
  BY <1>3, <1>4, <1>5, <1>6, <1>7, <1>8, <1>9, <1>10, <1>11, <1>12, <1>13 DEF Cron!Next

\* What a step of a request leaves of a job that is not what it starts or ends.
LEMMA OtherJobKept ==
    ASSUME CronTyped, NEW k \in Cron!JobNames, InTurn(k),
           NEW t \in Threads, NEW r, Becomes(t, r), now' = now,
           started'[k] = started[k], lastRun'[k] = lastRun[k],
           r.job = k <=> request[t].job = k, r.job = k => r.clock = request[t].clock
    PROVE  InTurn(k)'
<1>1. \A u \in Threads : /\ request'[u].job = k <=> request[u].job = k
                         /\ request[u].job = k => request'[u].clock = request[u].clock
  <2>1. request'[t] = r /\ \A u \in Threads \ {t} : request'[u] = request[u]
    BY OthersKept
  <2>. QED
    BY <2>1
<1>2. Alone(k)'
  BY <1>1 DEF InTurn, Alone
<1>3. ClockIsLast(k)'
  BY <1>1 DEF InTurn, ClockIsLast, StartedBy
<1>4. StampIsLast(k)'
  BY <1>1 DEF InTurn, StampIsLast, StartedBy, Cron!Running
<1>5. Spaced(k)' /\ StartedBy(k, now)'
  BY DEF InTurn, Spaced, StartedBy
<1>. QED
  BY <1>2, <1>3, <1>4, <1>5 DEF InTurn

\* A step that starts and ends no run keeps every job in turn.
LEMMA QuietKeepsTurns ==
    ASSUME Cron!CronAssumption, CronTyped, RunsInTurn, NEW t \in Threads, NEW r, Becomes(t, r),
           now' = now, UNCHANGED <<started, lastRun, overlapped>>,
           r.job = request[t].job, r.job = "none" \/ r.clock = request[t].clock
    PROVE  RunsInTurn'
<1>1. ASSUME NEW k \in Cron!JobNames \ overlapped PROVE InTurn(k)'
  <2>1. InTurn(k) /\ k # "none"
    BY DEF RunsInTurn, Cron!CronAssumption
  <2>. QED
    BY <2>1, OtherJobKept
<1>. QED
  BY <1>1 DEF RunsInTurn

\* A run that starts while no other of its job is at work keeps the job in turn:
\* a due one starts an interval after the stamp, which no start is behind.
LEMMA StartKeepsTurns ==
    ASSUME Cron!CronAssumption, CronTyped, RunsInTurn, NEW t \in Threads, NEW r, Becomes(t, r),
           now' = now, UNCHANGED lastRun, request[t].job = "none", Cron!NoteStart(r.job),
           \/ r.clock = now /\ UNCHANGED started
           \/ /\ Cron!IsDue(r.job, r.clock)
              /\ started' = [started EXCEPT ![r.job] = Append(@, r.clock)]
    PROVE  RunsInTurn'
<1>. DEFINE j == r.job
<1>1. request'[t] = r /\ \A u \in Threads \ {t} : request'[u] = request[u]
  BY OthersKept
<1>2. r.clock \in Nat /\ now \in Nat /\ now \in 0 .. MaxTime /\ r.clock <= now
  BY DEF Becomes, IsRequest, CronTyped
<1>3. overlapped \subseteq overlapped' /\ (Cron!Running(j) => j \in overlapped')
  BY DEF Cron!NoteStart
<1>4. ASSUME NEW k \in Cron!JobNames \ overlapped', k # j PROVE InTurn(k)'
  <2>1. InTurn(k) /\ k # "none"
    BY <1>3 DEF RunsInTurn, Cron!CronAssumption
  <2>2. started'[k] = started[k]
    BY <1>4 DEF CronTyped
  <2>. QED
    BY <1>4, <2>1, <2>2, OtherJobKept
<1>5. ASSUME j \in Cron!JobNames \ overlapped' PROVE InTurn(j)'
  <2>1. InTurn(j) /\ ~Cron!Running(j)
    BY <1>3, <1>5 DEF RunsInTurn
  <2>2. \A u \in Threads : request'[u].job = j => u = t
    BY <1>1, <2>1 DEF Cron!Running
  <2>3. Alone(j)' /\ Cron!Running(j)'
    BY <1>1, <2>2 DEF Alone, Cron!Running
  <2>4. started[j] \in Seq(Nat) /\ lastRun[j] \in Nat /\ Interval[j] \in Nat
    BY <1>5 DEF CronTyped, Cron!CronAssumption
  <2>5. StartedBy(j, now)
    BY <2>1 DEF InTurn
  <2>6. CASE r.clock = now /\ UNCHANGED started
    <3>1. StartedBy(j, r.clock)'
      BY <2>5, <2>6 DEF StartedBy
    <3>2. ClockIsLast(j)'
      BY <1>1, <2>2, <3>1 DEF ClockIsLast, StartedBy
    <3>. QED
      BY <2>1, <2>3, <2>6, <3>1, <3>2 DEF InTurn, StampIsLast, Spaced, StartedBy
  <2>7. CASE /\ Cron!IsDue(j, r.clock)
             /\ started' = [started EXCEPT ![j] = Append(@, r.clock)]
    <3>1. started'[j] = Append(started[j], r.clock)
      BY <1>5, <2>7 DEF CronTyped
    <3>. DEFINE n == Len(started[j])
    <3>2. /\ n \in Nat /\ DOMAIN started'[j] = 1 .. n + 1 /\ DOMAIN started[j] = 1 .. n
          /\ \A i \in 1 .. n : started'[j][i] = started[j][i] /\ started[j][i] \in Nat
          /\ started'[j][n + 1] = r.clock
      BY <1>2, <2>4, <3>1, AppendKeepsNumbers
    <3>3. \A i \in 1 .. n : /\ r.clock >= started[j][i] + Interval[j]
                          /\ started[j][i] <= r.clock
      <4>1. SUFFICES ASSUME NEW i \in 1 .. n
                     PROVE  /\ r.clock >= started[j][i] + Interval[j]
                            /\ started[j][i] <= r.clock
        OBVIOUS
      <4>2. started[j] # << >>
        BY <2>4, <3>2
      <4>3. lastRun[j] # Cron!Never /\ StartedBy(j, lastRun[j])
        BY <2>1, <4>2 DEF InTurn, StampIsLast
      <4>4. r.clock >= lastRun[j] + Interval[j] /\ started[j][i] <= lastRun[j]
        BY <2>7, <3>2, <4>3 DEF Cron!IsDue, StartedBy
      <4>5. started[j][i] \in Nat
        BY <3>2
      <4>6. /\ r.clock \in Nat /\ lastRun[j] \in Nat /\ started[j][i] \in Nat
            /\ Interval[j] \in Nat
        BY <1>2, <2>4, <4>5, Zenon
      <4>. QED
        <5>1. PICK time \in Nat, stamp \in Nat, start \in Nat, gap \in Nat :
                /\ time = r.clock /\ stamp = lastRun[j]
                /\ start = started[j][i] /\ gap = Interval[j]
          BY <4>6
        <5>2. time >= stamp + gap /\ start <= stamp
          BY <4>4, <5>1
        <5>3. time >= start + gap /\ start <= time
          BY <5>2
        <5>. QED
          BY <5>1, <5>3
    <3>. HIDE DEF n
    <3>4. Spaced(j)'
      <4>1. SUFFICES ASSUME NEW i \in 1 .. n + 1, NEW k \in 1 .. n + 1, i < k
                     PROVE  Cron!Apart(started'[j][i], started'[j][k], Interval[j])
        BY <3>2 DEF Spaced
      <4>2. i \in 1 .. n
        BY <3>2, <4>1
      <4>3. CASE k = n + 1
        BY <3>2, <3>3, <4>2, <4>3 DEF Cron!Apart
      <4>4. CASE k # n + 1
        <5>1. k \in 1 .. n
          BY <3>2, <4>1, <4>4
        <5>2. Cron!Apart(started[j][i], started[j][k], Interval[j])
          BY <2>1, <3>2, <4>1, <4>2, <5>1 DEF InTurn, Spaced
        <5>. QED
          BY <3>2, <4>2, <5>1, <5>2
      <4>. QED
        BY <4>3, <4>4
    <3>5. StartedBy(j, r.clock)'
      <4>1. ASSUME NEW i \in 1 .. n + 1 PROVE started'[j][i] <= r.clock
        <5>1. CASE i = n + 1
          BY <1>2, <3>2, <5>1
        <5>2. CASE i # n + 1
          <6>1. i \in 1 .. n
            BY <3>2, <5>2
          <6>. QED
            BY <3>2, <3>3, <6>1
        <5>. QED
          BY <5>1, <5>2
      <4>. QED
        BY <3>2, <4>1 DEF StartedBy
    <3>6. ClockIsLast(j)'
      BY <1>1, <2>2, <3>5 DEF ClockIsLast, StartedBy
    <3>7. StartedBy(j, now)'
      <4>1. ASSUME NEW i \in 1 .. n + 1 PROVE started'[j][i] <= now
        <5>1. started'[j][i] <= r.clock
          BY <3>2, <3>5 DEF StartedBy
        <5>2. started'[j][i] \in Nat
          BY <1>2, <3>2
        <5>. QED
          BY <1>2, <5>1, <5>2
      <4>. QED
        BY <3>2, <4>1 DEF StartedBy
    <3>8. StampIsLast(j)'
      BY <2>3 DEF StampIsLast
    <3>. QED
      BY <2>3, <3>4, <3>6, <3>7, <3>8 DEF InTurn
  <2>. QED
    BY <2>6, <2>7
<1>. QED
  BY <1>4, <1>5 DEF RunsInTurn

\* The stamp of a run that was alone covers every start of its job.
LEMMA StampKeepsTurns ==
    ASSUME Cron!CronAssumption, CronTyped, RunsInTurn, NEW t \in Threads, Cron!Stamped(t),
           now' = now, UNCHANGED <<started, overlapped>>
    PROVE  RunsInTurn'
<1>1. PICK r : Becomes(t, r) /\ r.job = "none"
  BY JobStamps
<1>2. request'[t] = r /\ \A u \in Threads \ {t} : request'[u] = request[u]
  BY <1>1, OthersKept
<1>j. PICK j : j = request[t].job
  OBVIOUS
<1>3. ASSUME NEW k \in Cron!JobNames \ overlapped, k # j PROVE InTurn(k)'
  <2>1. InTurn(k) /\ k # "none"
    BY DEF RunsInTurn, Cron!CronAssumption
  <2>2. lastRun'[k] = lastRun[k]
    BY <1>j, <1>3 DEF CronTyped, Cron!Stamped
  <2>. QED
    BY <1>1, <1>j, <1>3, <2>1, <2>2, OtherJobKept
<1>4. ASSUME j \in Cron!JobNames \ overlapped PROVE InTurn(j)'
  <2>1. InTurn(j) /\ j # "none"
    BY <1>4 DEF RunsInTurn, Cron!CronAssumption
  <2>2. \A u \in Threads : request'[u].job # j
    BY <1>1, <1>2, <1>j, <2>1 DEF InTurn, Alone
  <2>3. lastRun'[j] = request[t].clock
    BY <1>j, <1>4 DEF CronTyped, Cron!Stamped
  <2>4. request[t].clock # MaxTime + 1
    <3>1. IsRequest(request[t]) /\ request[t].clock <= now /\ now \in 0 .. MaxTime
      BY DEF CronTyped
    <3>2. request[t].clock \in Nat /\ MaxTime \in Nat
      BY <3>1 DEF IsRequest, Cron!CronAssumption
    <3>. QED
      BY <3>1, <3>2
  <2>5. \A i \in DOMAIN started'[j] : started'[j][i] <= lastRun'[j]
    BY <1>j, <2>1, <2>3 DEF InTurn, ClockIsLast, StartedBy
  <2>6. StampIsLast(j)'
    BY <2>3, <2>4, <2>5 DEF StampIsLast, StartedBy, Cron!Never
  <2>7. Alone(j)' /\ ClockIsLast(j)'
    BY <2>2 DEF Alone, ClockIsLast
  <2>8. Spaced(j)' /\ StartedBy(j, now)'
    BY <2>1 DEF InTurn, Spaced, StartedBy
  <2>. QED
    BY <2>6, <2>7, <2>8 DEF InTurn
<1>. QED
  BY <1>3, <1>4 DEF RunsInTurn

\* Every step keeps each job in turn.
LEMMA TurnsStep ==
    ASSUME Cron!CronAssumption, CronTyped, RunsInTurn, [Cron!Next]_Cron!vars
    PROVE  RunsInTurn'
<1>1. ASSUME NEW t \in Threads, Cron!RunDue(t) PROVE RunsInTurn'
  BY <1>1, RequestBegins, QuietKeepsTurns DEF Cron!RunDue
<1>2. ASSUME NEW t \in Threads, Cron!NextJob(t) PROVE RunsInTurn'
  <2>1. PICK r : /\ Becomes(t, r) /\ r.clock = request[t].clock
                 /\ \/ r.job = "none" /\ UNCHANGED <<started, overlapped>>
                    \/ /\ Cron!IsDue(r.job, r.clock) /\ Cron!NoteStart(r.job)
                       /\ started' = [started EXCEPT ![r.job] = Append(@, r.clock)]
    BY <1>2, WalkGoesOn
  <2>2. request[t].job = "none" /\ now' = now /\ UNCHANGED lastRun
    BY <1>2, WalkGoesOn DEF Cron!NextJob
  <2>3. CASE r.job = "none" /\ UNCHANGED <<started, overlapped>>
    BY <2>1, <2>2, <2>3, QuietKeepsTurns
  <2>4. CASE /\ Cron!IsDue(r.job, r.clock) /\ Cron!NoteStart(r.job)
             /\ started' = [started EXCEPT ![r.job] = Append(@, r.clock)]
    BY <2>1, <2>2, <2>4, StartKeepsTurns
  <2>. QED
    BY <2>1, <2>3, <2>4
<1>3. ASSUME NEW t \in Threads, Cron!EndWalk(t) PROVE RunsInTurn'
  BY <1>3, WalkEnds, QuietKeepsTurns DEF Cron!EndWalk
<1>4. ASSUME NEW t \in Threads, NEW j \in Cron!JobNames, Cron!TriggerJob(t, j) PROVE RunsInTurn'
  <2>1. PICK r : Becomes(t, r) /\ r.clock = now /\ r.job = j /\ Cron!NoteStart(j)
    BY <1>4, JobTriggered
  <2>2. request[t].job = "none" /\ now' = now /\ UNCHANGED <<lastRun, started>>
    BY <1>4, JobTriggered DEF Cron!TriggerJob
  <2>. QED
    BY <2>1, <2>2, StartKeepsTurns
<1>5. ASSUME NEW t \in Threads, Cron!Scan(t) \/ Cron!Mark(t) \/ Cron!Publish(t)
             PROVE RunsInTurn'
  <2>1. PICK r : Becomes(t, r) /\ r.job = request[t].job /\ r.clock = request[t].clock
    BY <1>5, JobGoesOn
  <2>2. now' = now /\ UNCHANGED <<started, lastRun, overlapped>>
    BY <1>5 DEF Cron!Scan, Cron!Mark, Cron!Publish
  <2>. QED
    BY <2>1, <2>2, QuietKeepsTurns
<1>6. ASSUME NEW t \in Threads, Cron!EndJob(t) \/ Cron!JobRaises(t) PROVE RunsInTurn'
  BY <1>6, StampKeepsTurns DEF Cron!EndJob, Cron!JobRaises
<1>7. CASE Cron!Tick
  <2>1. ASSUME NEW k \in Cron!JobNames \ overlapped' PROVE InTurn(k)'
    <3>1. InTurn(k)
      BY <1>7 DEF Cron!Tick, RunsInTurn
    <3>2. started[k] \in Seq(Nat) /\ now \in Nat /\ now' = now + 1 /\ started' = started
      BY <1>7 DEF Cron!Tick, CronTyped
    <3>3. StartedBy(k, now)'
      BY <3>1, <3>2 DEF InTurn, StartedBy
    <3>4. Alone(k)' /\ ClockIsLast(k)' /\ StampIsLast(k)' /\ Spaced(k)'
      BY <1>7, <3>1 DEF Cron!Tick, InTurn, Alone, ClockIsLast, StampIsLast, Spaced,
         StartedBy, Cron!Running
    <3>. QED
      BY <3>3, <3>4 DEF InTurn
  <2>. QED
    BY <2>1 DEF RunsInTurn
<1>8. CASE Cron!Restart
  <2>1. ASSUME NEW k \in Cron!JobNames PROVE InTurn(k)'
    <3>1. started'[k] = << >> /\ DOMAIN started'[k] = {}
      BY <1>8 DEF Cron!Restart
    <3>2. \A u \in Threads : request'[u].job # k
      BY <1>8, IdleIsRequest DEF Cron!Restart, Cron!CronAssumption
    <3>. QED
      BY <3>1, <3>2 DEF InTurn, Alone, ClockIsLast, StampIsLast, Spaced, StartedBy
  <2>. QED
    BY <2>1 DEF RunsInTurn
<1>9. CASE UNCHANGED Cron!vars
  BY <1>9 DEF Cron!vars, RunsInTurn, InTurn, Alone, ClockIsLast, StampIsLast, Spaced,
     StartedBy, Cron!Running
<1>. QED
  BY <1>1, <1>2, <1>3, <1>4, <1>5, <1>6, <1>7, <1>8, <1>9 DEF Cron!Next

\* What one request still has to publish for a job.
HandOf(r, k) == IF r.job = k /\ r.pc = "publish" THEN r.triggers ELSE {}

\* Items stay accounted for when a request hands on what it lets go of.
LEMMA HandedOn ==
    ASSUME CronTyped, NEW k \in Cron!JobNames, NEW t \in Threads,
           processed[k] \subseteq published[k] \cup Cron!InHand(k) \cup dropped[k],
           \A u \in Threads \ {t} : request'[u] = request[u],
           processed'[k] \subseteq processed[k] \cup HandOf(request'[t], k),
           published[k] \subseteq published'[k], dropped[k] \subseteq dropped'[k],
           HandOf(request[t], k) \subseteq
               HandOf(request'[t], k) \cup published'[k] \cup dropped'[k]
    PROVE  processed'[k] \subseteq published'[k] \cup Cron!InHand(k)' \cup dropped'[k]
<1>1. \A i : i \in Cron!InHand(k) <=> \E u \in Threads : i \in HandOf(request[u], k)
  BY DEF Cron!InHand, HandOf
<1>2. \A i : i \in Cron!InHand(k)' <=> \E u \in Threads : i \in HandOf(request'[u], k)
  BY DEF Cron!InHand, HandOf
<1>3. Cron!InHand(k) \subseteq Cron!InHand(k)' \cup published'[k] \cup dropped'[k]
  <2>1. SUFFICES ASSUME NEW i, NEW u \in Threads, i \in HandOf(request[u], k)
                 PROVE  i \in Cron!InHand(k)' \cup published'[k] \cup dropped'[k]
    BY <1>1
  <2>. QED
    BY <1>2, <2>1
<1>. QED
  BY <1>2, <1>3

\* Every step keeps the processed items accounted for.
LEMMA AccountStep ==
    ASSUME CronTyped, Cron!ProcessedAreAccountedFor, [Cron!Next]_Cron!vars
    PROVE  Cron!ProcessedAreAccountedFor'
<1>1. SUFFICES ASSUME NEW k \in Cron!JobNames
               PROVE  processed'[k] \subseteq published'[k] \cup Cron!InHand(k)' \cup dropped'[k]
  BY DEF Cron!ProcessedAreAccountedFor
<1>2. processed[k] \subseteq published[k] \cup Cron!InHand(k) \cup dropped[k]
  BY DEF Cron!ProcessedAreAccountedFor
<1>3. ASSUME NEW t \in Threads,
             \/ Cron!RunDue(t) \/ Cron!NextJob(t) \/ Cron!EndWalk(t) \/ Cron!Scan(t)
             \/ \E j \in Cron!JobNames : Cron!TriggerJob(t, j)
      PROVE  processed'[k] \subseteq published'[k] \cup Cron!InHand(k)' \cup dropped'[k]
  <2>1. request[t].pc # "publish"
    <3>1. request[t] = Cron!Idle \/ request[t].pc = "next" \/ request[t].pc = "scan"
      BY <1>3 DEF Cron!RunDue, Cron!NextJob, Cron!EndWalk, Cron!Scan, Cron!TriggerJob
    <3>2. Cron!Idle.pc = "idle"
      BY DEF Cron!Idle
    <3>. QED
      BY <3>1, <3>2
  <2>2. \A u \in Threads \ {t} : request'[u] = request[u]
    BY <1>3 DEF Cron!RunDue, Cron!NextJob, Cron!EndWalk, Cron!Scan, Cron!TriggerJob, CronTyped
  <2>3. UNCHANGED <<processed, published, dropped>>
    BY <1>3 DEF Cron!RunDue, Cron!NextJob, Cron!EndWalk, Cron!Scan, Cron!TriggerJob
  <2>4. HandOf(request[t], k) = {}
    BY <2>1 DEF HandOf
  <2>. QED
    BY <1>2, <2>2, <2>3, <2>4, HandedOn
<1>4. ASSUME NEW t \in Threads, Cron!Mark(t)
      PROVE  processed'[k] \subseteq published'[k] \cup Cron!InHand(k)' \cup dropped'[k]
  <2>1. /\ request[t].pc = "mark" /\ request' = [request EXCEPT ![t].pc = "publish"]
        /\ UNCHANGED <<published, dropped>>
    BY <1>4 DEF Cron!Mark
  <2>2. \A u \in Threads \ {t} : request'[u] = request[u]
    BY <2>1 DEF CronTyped
  <2>3. /\ request'[t].pc = "publish" /\ request'[t].job = request[t].job
        /\ request'[t].triggers = request[t].triggers
    BY <2>1 DEF CronTyped, IsRequest
  <2>4. processed'[k] \subseteq processed[k] \cup HandOf(request'[t], k)
    BY <1>4, <2>3 DEF Cron!Mark, Cron!Marked, CronTyped, HandOf
  <2>5. HandOf(request[t], k) = {}
    BY <2>1 DEF HandOf
  <2>. QED
    BY <1>2, <2>1, <2>2, <2>4, <2>5, HandedOn
<1>5. ASSUME NEW t \in Threads, Cron!Publish(t)
      PROVE  processed'[k] \subseteq published'[k] \cup Cron!InHand(k)' \cup dropped'[k]
  <2>1. PICK i \in request[t].triggers :
            /\ published' = [published EXCEPT ![request[t].job] = @ \cup {i}]
            /\ request' = [request EXCEPT ![t].triggers = @ \ {i}]
    BY <1>5 DEF Cron!Publish
  <2>2. \A u \in Threads \ {t} : request'[u] = request[u]
    BY <2>1 DEF CronTyped
  <2>3. /\ request'[t].pc = request[t].pc /\ request'[t].job = request[t].job
        /\ request'[t].triggers = request[t].triggers \ {i}
    BY <2>1 DEF CronTyped, IsRequest
  <2>4. /\ published[k] \subseteq published'[k]
        /\ request[t].job = k => i \in published'[k]
    BY <2>1 DEF CronTyped
  <2>5. HandOf(request[t], k) \subseteq HandOf(request'[t], k) \cup published'[k]
    BY <2>3, <2>4 DEF HandOf
  <2>6. UNCHANGED <<processed, dropped>>
    BY <1>5 DEF Cron!Publish
  <2>. QED
    BY <1>2, <2>2, <2>4, <2>5, <2>6, HandedOn
<1>6. ASSUME NEW t \in Threads, Cron!EndJob(t) \/ Cron!JobRaises(t)
      PROVE  processed'[k] \subseteq published'[k] \cup Cron!InHand(k)' \cup dropped'[k]
  <2>1. \A u \in Threads \ {t} : request'[u] = request[u]
    BY <1>6 DEF Cron!EndJob, Cron!JobRaises, Cron!Stamped, CronTyped
  <2>2. UNCHANGED <<processed, published>>
    BY <1>6 DEF Cron!EndJob, Cron!JobRaises
  <2>3. dropped[k] \subseteq dropped'[k] /\ HandOf(request[t], k) \subseteq dropped'[k]
    <3>1. CASE Cron!EndJob(t)
      BY <3>1 DEF Cron!EndJob, HandOf
    <3>2. CASE Cron!JobRaises(t)
      BY <3>2 DEF Cron!JobRaises, HandOf, CronTyped
    <3>. QED
      BY <1>6, <3>1, <3>2
  <2>. QED
    BY <1>2, <2>1, <2>2, <2>3, HandedOn
<1>7. CASE Cron!Restart
  BY <1>7 DEF Cron!Restart
<1>8. CASE Cron!Tick \/ UNCHANGED Cron!vars
  <2>1. UNCHANGED <<request, processed, published, dropped>>
    BY <1>8 DEF Cron!Tick, Cron!vars
  <2>. QED
    BY <1>2, <2>1 DEF Cron!InHand
<1>. QED
  BY <1>3, <1>4, <1>5, <1>6, <1>7, <1>8 DEF Cron!Next

\* The dispatcher starts with no job, and nothing has run.
LEMMA CronStarts ==
    ASSUME Cron!CronAssumption, Cron!Init
    PROVE  CronInv
<1>1. CronTyped
  BY IdleIsRequest DEF Cron!CronAssumption, Cron!Init, Cron!Fresh, Cron!Never, CronTyped,
     IsRequest
<1>2. ASSUME NEW k \in Cron!JobNames PROVE InTurn(k)
  <2>1. started[k] = << >> /\ DOMAIN started[k] = {}
    BY DEF Cron!Init, Cron!Fresh
  <2>2. \A u \in Threads : request[u].job # k
    BY IdleIsRequest DEF Cron!Init, Cron!Fresh, Cron!CronAssumption
  <2>. QED
    BY <2>1, <2>2 DEF InTurn, Alone, ClockIsLast, StampIsLast, Spaced, StartedBy
<1>3. Cron!ProcessedAreAccountedFor
  BY DEF Cron!Init, Cron!Fresh, Cron!ProcessedAreAccountedFor
<1>. QED
  BY <1>1, <1>2, <1>3 DEF CronInv, RunsInTurn

\* Every step of it keeps what is known of it.
LEMMA CronStep == Cron!CronAssumption /\ CronInv /\ [Cron!Next]_Cron!vars => CronInv'
  BY TypedStep, TurnsStep, AccountStep DEF CronInv

\* What is known of it says that the schedule is kept.
LEMMA CronImplied == CronInv => Cron!ScheduleIsKept
  BY DEF CronInv, RunsInTurn, InTurn, Spaced, Cron!ScheduleIsKept,
     Cron!SpacedUnlessOverlapping

-----------------------------------------------------------------------------
(* The index of a repository, in the variables of the composition *)

\* Where a run of the agent stands.  It stores at the last three places.
Storing == {"add", "flush", "report"}
IndexPlaces == {"idle", "lookup", "construct", "parse", "extract", "chunk", "embed",
                "collection", "again", "create", "pipeline", "ingest"} \cup Storing
StoredPoint == [run : Nat, chunk : Nat]
IndexerRecord ==
    [pc : IndexPlaces, id : Nat, original : BOOLEAN, local : BOOLEAN,
     memory : SUBSET StoredPoint,
     chunks : Seq(Nat), vectors : SUBSET Nat, next : Nat \ {0}, added : SUBSET Nat,
     buffer : Seq(Nat), sent : Nat, closing : BOOLEAN]
IndexTyped ==
    /\ collection \in [exists : BOOLEAN, points : SUBSET StoredPoint]
    /\ indexer \in [Indexers -> IndexerRecord]
    /\ indexings \in Nat /\ errors \in Nat

\* Nothing is added before the run stores.
NothingYet(w) ==
    w.pc \notin Storing => w.added = {} /\ w.buffer = <<>> /\ w.sent = 0 /\ w.next = 1

\* What a run added is stored or held, and so is, twice, what it has sent of its buffer.
OfRun(w, n) == [run |-> w.id, chunk |-> n]
StoreOf(w, points) == IF w.local THEN w.memory ELSE points
AddedIsKept(w, points) ==
    \A n \in w.added : OfRun(w, n) \in StoreOf(w, points) \/ n \in Index!Elements(w.buffer)
SentIsStored(w, points) ==
    \A k \in DOMAIN w.buffer : k <= w.sent => OfRun(w, w.buffer[k]) \in StoreOf(w, points)
Kept(w, points, gone) ==
    w.id \notin gone => AddedIsKept(w, points) /\ SentIsStored(w, points)

\* As long as nothing fails: every chunk comes through, with its vector, and is added.
WholeSoFar(w) ==
    /\ ~w.original /\ ~w.local /\ w.pc \notin {"pipeline", "ingest"}
    /\ w.pc \in {"extract", "chunk", "embed", "collection", "again", "create"} \cup Storing =>
          w.chunks = Index!FirstOf(Chunks)
    /\ w.pc \in {"collection", "again", "create"} \cup Storing => w.vectors = 1..Chunks
    /\ w.pc \in Storing =>
          /\ w.added = 1..(w.next - 1) /\ w.next \in 1..(Chunks + 1)
          /\ Index!Elements(w.buffer) \subseteq 1..Chunks
    /\ w.closing => w.pc \in {"flush", "report"} /\ w.next = Chunks + 1
    /\ w.pc = "report" => w.closing /\ w.buffer = <<>>
StoresThere(w, exists) == w.pc \in Storing => exists

AtWork == \E i \in Indexers : indexer[i].pc \in Storing
Faultless ==
    errors = 0 =>
        /\ wiped = {}
        /\ \A i \in Indexers :
              WholeSoFar(indexer[i]) /\ StoresThere(indexer[i], collection.exists)
        /\ collection.points = {} \/ Index!Covered(collection.points) \/ AtWork

IndexInv ==
    /\ IndexTyped
    /\ \A i \in Indexers : NothingYet(indexer[i])
    /\ \A i \in Indexers : Kept(indexer[i], collection.points, wiped)
    /\ Faultless
    /\ Index!ReusedIsWhole

\* The first m chunks, as a list.
LEMMA FirstChunks ==
    \A m \in Nat : /\ Index!FirstOf(m) \in Seq(Nat) /\ Len(Index!FirstOf(m)) = m
                   /\ Index!Elements(Index!FirstOf(m)) = 1..m
                   /\ \A n \in 1..m : Index!FirstOf(m)[n] = n
  BY DEF Index!FirstOf, Index!Elements

\* Elements of a list and of a longer one.
LEMMA ElementsOfLists ==
    ASSUME NEW s \in Seq(Nat)
    PROVE  /\ Index!Elements(s) \in SUBSET Nat
           /\ \A n \in Nat : /\ Append(s, n) \in Seq(Nat)
                             /\ Index!Elements(Append(s, n)) = Index!Elements(s) \cup {n}
           /\ \A k \in 1..Len(s) : s[k] \in Nat /\ s[k] \in Index!Elements(s)
           /\ \A n \in Index!Elements(s) : \E k \in 1..Len(s) : n = s[k]
           /\ Index!Elements(<<>>) = {}
<1>1. \A n \in Nat : /\ Append(s, n) \in Seq(Nat) /\ Len(Append(s, n)) = Len(s) + 1
                     /\ Append(s, n)[Len(s) + 1] = n
                     /\ \A k \in 1..Len(s) : Append(s, n)[k] = s[k]
  OBVIOUS
<1>2. \A n \in Nat : Index!Elements(Append(s, n)) = Index!Elements(s) \cup {n}
  BY <1>1 DEF Index!Elements
<1>. QED
  BY <1>1, <1>2 DEF Index!Elements

\* A run that stores nothing yet keeps everything.
LEMMA NothingIsKept ==
    ASSUME NEW w \in IndexerRecord, NothingYet(w), w.pc \notin Storing, NEW points, NEW gone
    PROVE  Kept(w, points, gone)
  BY DEF Kept, NothingYet, AddedIsKept, SentIsStored

\* What is kept stays so as the collection grows, and as it is emptied of runs that are
\* counted as wiped from then on.
LEMMA KeptAsItGrows ==
    ASSUME NEW w \in IndexerRecord, NEW points, NEW more, points \subseteq more, NEW gone,
           Kept(w, points, gone)
    PROVE  Kept(w, more, gone)
  BY DEF Kept, AddedIsKept, SentIsStored, StoreOf

\* And as the collection loses its points, along with the runs it forgets.
LEMMA KeptAsItIsEmptied ==
    ASSUME NEW w \in IndexerRecord, NEW points \in SUBSET StoredPoint, NEW gone,
           Kept(w, points, gone)
    PROVE  Kept(w, {}, gone \cup {p.run : p \in points})
<1>. SUFFICES ASSUME w.id \notin gone, w.id \notin {p.run : p \in points}
              PROVE  AddedIsKept(w, {}) /\ SentIsStored(w, {})
  BY DEF Kept
<1>1. \A n : OfRun(w, n) \notin points
  BY DEF OfRun
<1>. QED
  BY <1>1 DEF Kept, AddedIsKept, SentIsStored, StoreOf

\* What the changes of one run owe the invariant.  The points grow, or they go and their
\* runs are counted; and where nothing has failed the run comes through whole, the
\* collection stays, and a run that has stored leaves every chunk behind.
Grows == collection.points \subseteq collection'.points /\ wiped' = wiped
Emptied == collection'.points = {} /\ wiped' = wiped \cup Index!Owners
FaultlessStep(i, new) ==
    errors' = 0 =>
        /\ errors = 0 /\ Grows /\ WholeSoFar(new) /\ StoresThere(new, collection'.exists)
        /\ collection.exists => collection'.exists
        /\ \/ new.pc \in Storing
           \/ /\ collection'.points = collection.points
              /\ indexer[i].pc \notin Storing \/ Index!Covered(collection.points)
\* A step of one run that keeps the invariant for it keeps it for all, the others being touched by
\* the collection alone.
LEMMA OneRunMoves ==
    ASSUME IndexInv, NEW i \in Indexers, NEW new \in IndexerRecord, Index!Set(i, new),
           NothingYet(new), Kept(new, collection'.points, wiped'),
           collection' \in [exists : BOOLEAN, points : SUBSET StoredPoint],
           indexings' \in Nat, errors' \in Nat, Grows \/ Emptied,
           FaultlessStep(i, new), Index!ReusedIsWhole'
    PROVE  IndexInv'
<1>1. indexer' \in [Indexers -> IndexerRecord] /\ indexer'[i] = new
      /\ \A j \in Indexers \ {i} : indexer'[j] = indexer[j]
  BY DEF IndexInv, IndexTyped, Index!Set
<1>2. \A j \in Indexers : NothingYet(indexer'[j])
  BY <1>1 DEF IndexInv
<1>3. ASSUME NEW j \in Indexers PROVE Kept(indexer'[j], collection'.points, wiped')
  <2>1. CASE j = i
    BY <2>1, <1>1
  <2>2. CASE j # i
    <3>1. Kept(indexer[j], collection.points, wiped) /\ indexer[j] \in IndexerRecord
          /\ collection.points \in SUBSET StoredPoint
      BY DEF IndexInv, IndexTyped
    <3>2. CASE Grows
      BY <3>1, <3>2, <2>2, <1>1, KeptAsItGrows DEF Grows
    <3>3. CASE Emptied
      BY <3>1, <3>3, <2>2, <1>1, KeptAsItIsEmptied DEF Emptied, Index!Owners
    <3>. QED
      BY <3>2, <3>3
  <2>. QED
    BY <2>1, <2>2
<1>4. ASSUME errors' = 0
      PROVE  /\ wiped' = {}
             /\ \A j \in Indexers : /\ WholeSoFar(indexer'[j])
                                    /\ StoresThere(indexer'[j], collection'.exists)
             /\ collection'.points = {} \/ Index!Covered(collection'.points) \/ AtWork'
  <2>1. /\ errors = 0 /\ Grows /\ WholeSoFar(new) /\ StoresThere(new, collection'.exists)
        /\ collection.exists => collection'.exists
    BY <1>4 DEF FaultlessStep
  <2>2. /\ wiped = {}
        /\ \A j \in Indexers : WholeSoFar(indexer[j])
           /\ StoresThere(indexer[j], collection.exists)
        /\ collection.points = {} \/ Index!Covered(collection.points) \/ AtWork
    BY <2>1 DEF IndexInv, Faultless
  <2>3. \A j \in Indexers : WholeSoFar(indexer'[j])
    BY <2>1, <2>2, <1>1
  <2>4. \A j \in Indexers : StoresThere(indexer'[j], collection'.exists)
    BY <2>1, <2>2, <1>1 DEF StoresThere
  <2>5. collection'.points = {} \/ Index!Covered(collection'.points) \/ AtWork'
    <3>1. CASE new.pc \in Storing
      BY <3>1, <1>1 DEF AtWork
    <3>2. CASE /\ collection'.points = collection.points
               /\ indexer[i].pc \notin Storing \/ Index!Covered(collection.points)
      <4>1. CASE AtWork /\ ~Index!Covered(collection.points)
        <5>1. PICK j \in Indexers : indexer[j].pc \in Storing
          BY <4>1 DEF AtWork
        <5>2. j # i
          BY <5>1, <4>1, <3>2
        <5>. QED
          BY <5>1, <5>2, <1>1 DEF AtWork
      <4>. QED
        BY <4>1, <3>2, <2>2
    <3>. QED
      BY <3>1, <3>2, <1>4 DEF FaultlessStep
  <2>. QED
    BY <2>1, <2>2, <2>3, <2>4, <2>5 DEF Grows
<1>. QED
  BY <1>1, <1>2, <1>3, <1>4 DEF IndexInv, IndexTyped, Faultless

\* The same while the run stores nothing before and after, and nothing else changes.
LEMMA QuietMove ==
    ASSUME IndexInv, NEW i \in Indexers, indexer[i].pc \notin Storing,
           NEW new \in IndexerRecord, Index!Set(i, new),
           new.pc \notin Storing, NothingYet(new), Index!Alone, Index!NoFault \/ Index!Fault,
           Index!NoFault /\ WholeSoFar(indexer[i]) => WholeSoFar(new)
    PROVE  IndexInv'
<1>1. /\ collection' \in [exists : BOOLEAN, points : SUBSET StoredPoint]
      /\ indexings' \in Nat /\ errors' \in Nat /\ Grows
  BY DEF Index!Alone, Index!NoFault, Index!Fault, IndexInv, IndexTyped, Grows
<1>2. Index!ReusedIsWhole'
  BY DEF Index!Alone, IndexInv, Index!ReusedIsWhole
<1>3. FaultlessStep(i, new)
  <2>. SUFFICES ASSUME errors' = 0
                PROVE  /\ errors = 0 /\ WholeSoFar(new) /\ StoresThere(new, collection'.exists)
                       /\ collection' = collection
    BY <1>1 DEF FaultlessStep
  <2>1. errors = 0 /\ Index!NoFault
    BY DEF Index!NoFault, Index!Fault, IndexInv, IndexTyped
  <2>2. WholeSoFar(indexer[i])
    BY <2>1 DEF IndexInv, Faultless
  <2>. QED
    BY <2>1, <2>2 DEF StoresThere, Index!Alone
<1>4. Kept(new, collection'.points, wiped')
  BY NothingIsKept
<1>. QED
  BY <1>1, <1>2, <1>3, <1>4, OneRunMoves

\* The record of a run that rests.
LEMMA IdleRecord ==
    /\ Index!Idle \in IndexerRecord /\ Index!Idle.pc = "idle" /\ NothingYet(Index!Idle)
    /\ ~Index!Idle.original /\ ~Index!Idle.local /\ ~Index!Idle.closing
       /\ WholeSoFar(Index!Idle)
  BY DEF Index!Idle, IndexerRecord, IndexPlaces, Storing, NothingYet, WholeSoFar

\* A run begins, with a new number.
LEMMA StartKeeps ==
    ASSUME IndexInv, NEW i \in Indexers, NEW force \in BOOLEAN, Index!Start(i, force)
    PROVE  IndexInv'
<1>. DEFINE new == [Index!Idle EXCEPT !.pc = IF force THEN "construct" ELSE "lookup",
                                !.id = indexings + 1]
<1>1. indexer[i] \in IndexerRecord /\ indexings + 1 \in Nat
  BY DEF IndexInv, IndexTyped
<1>2. /\ new \in IndexerRecord /\ new.pc \in {"construct", "lookup"} /\ NothingYet(new)
      /\ ~new.original /\ ~new.local /\ ~new.closing
  <2>1. new \in IndexerRecord /\ new.pc \in {"construct", "lookup"}
    BY <1>1, IdleRecord DEF IndexerRecord, IndexPlaces
  <2>2. /\ new.added = {} /\ new.buffer = <<>> /\ new.sent = 0 /\ new.next = 1
        /\ ~new.original /\ ~new.local /\ ~new.closing
    BY DEF Index!Idle
  <2>. QED
    BY <2>1, <2>2 DEF NothingYet
<1>2a. new.pc \notin Storing /\ WholeSoFar(new)
  BY <1>2 DEF Storing, WholeSoFar
<1>3. Index!Set(i, new)
  BY DEF Index!Start
<1>4. Kept(new, collection'.points, wiped')
  BY <1>2, <1>2a, NothingIsKept
<1>5. /\ collection' \in [exists : BOOLEAN, points : SUBSET StoredPoint]
      /\ indexings' \in Nat /\ errors' \in Nat /\ Grows /\ Index!ReusedIsWhole'
  BY <1>1 DEF Index!Start, IndexInv, IndexTyped, Grows, Index!ReusedIsWhole
<1>6. FaultlessStep(i, new)
  BY <1>2, <1>2a, <1>5 DEF FaultlessStep, Index!Start, StoresThere, Storing
<1>. QED
  BY <1>2, <1>2a, <1>3, <1>4, <1>5, <1>6, OneRunMoves

\* A collection with points in it is reused: without an error, and with nobody at work
\* beside, the run that filled it left every chunk there.
LEMMA LookupKeeps ==
    ASSUME IndexInv, NEW i \in Indexers, Index!Lookup(i)
    PROVE  IndexInv'
<1>. DEFINE on == [indexer[i] EXCEPT !.pc = "construct"]
<1>1. indexer[i] \in IndexerRecord /\ indexer[i].pc = "lookup" /\ NothingYet(indexer[i])
  BY DEF Index!Lookup, IndexInv, IndexTyped
<1>2. on \in IndexerRecord /\ on.pc = "construct" /\ NothingYet(on)
      /\ (WholeSoFar(indexer[i]) => WholeSoFar(on))
  BY <1>1 DEF IndexerRecord, IndexPlaces, Storing, NothingYet, WholeSoFar
<1>3. /\ collection' \in [exists : BOOLEAN, points : SUBSET StoredPoint]
      /\ indexings' \in Nat /\ errors' \in Nat /\ Grows
  BY DEF Index!Lookup, Index!NoFault, Index!Fault, IndexInv, IndexTyped, Grows
<1>4. PICK new \in {on, Index!Idle} : Index!Set(i, new)
  BY DEF Index!Lookup
<1>5. /\ new \in IndexerRecord /\ new.pc \notin Storing /\ NothingYet(new)
      /\ WholeSoFar(indexer[i]) => WholeSoFar(new)
  BY <1>2, IdleRecord DEF Storing
<1>6. Index!ReusedIsWhole'
  <2>1. CASE UNCHANGED reused
    BY <2>1 DEF IndexInv, Index!ReusedIsWhole
  <2>2. CASE /\ collection.points # {}
             /\ reused' = reused \cup {[whole |-> Index!Covered(collection.points),
                                        errors |-> errors, beside |-> Index!Beside(i)]}
    <3>. DEFINE u == [whole |-> Index!Covered(collection.points),
                      errors |-> errors, beside |-> Index!Beside(i)]
    <3>1. u.whole \/ u.errors > 0 \/ u.beside
      <4>. SUFFICES ASSUME errors = 0, ~Index!Beside(i) PROVE Index!Covered(collection.points)
        BY DEF IndexInv, IndexTyped
      <4>1. ~AtWork
        BY <1>1 DEF AtWork, Index!Beside, Storing
      <4>. QED
        BY <4>1, <2>2 DEF IndexInv, Faultless
    <3>. HIDE DEF u
    <3>. QED
      BY <2>2, <3>1 DEF IndexInv, Index!ReusedIsWhole, u
  <2>. QED
    BY <2>1, <2>2 DEF Index!Lookup
<1>7. FaultlessStep(i, new)
  <2>. SUFFICES ASSUME errors' = 0
                       PROVE errors = 0 /\ WholeSoFar(new) /\ collection' = collection
    BY <1>1, <1>3, <1>5 DEF FaultlessStep, Storing, StoresThere
  <2>1. errors = 0 /\ collection' = collection
    BY DEF Index!Lookup, Index!NoFault, Index!Fault, IndexInv, IndexTyped
  <2>2. WholeSoFar(indexer[i])
    BY <2>1 DEF IndexInv, Faultless
  <2>. QED
    BY <2>1, <2>2, <1>5
<1>8. Kept(new, collection'.points, wiped')
  BY <1>5, NothingIsKept
<1>. QED
  BY <1>3, <1>4, <1>5, <1>6, <1>7, <1>8, OneRunMoves

\* The store is built, in memory where the server does not answer.
LEMMA ConstructKeeps ==
    ASSUME IndexInv, NEW i \in Indexers, Index!Construct(i)
    PROVE  IndexInv'
<1>1. indexer[i] \in IndexerRecord /\ indexer[i].pc = "construct" /\ NothingYet(indexer[i])
      /\ Index!Alone /\ (Index!NoFault \/ Index!Fault)
  BY DEF Index!Construct, IndexInv, IndexTyped
<1>2. ASSUME NEW here \in BOOLEAN
      PROVE  LET new == Index!Built(i, here)
             IN /\ new \in IndexerRecord /\ new.pc \notin Storing /\ NothingYet(new)
                /\ ~here /\ WholeSoFar(indexer[i]) => WholeSoFar(new)
  BY <1>1 DEF Index!Built, IndexerRecord, IndexPlaces, Storing, NothingYet, WholeSoFar
<1>3. CASE Index!NoFault /\ Index!Set(i, Index!Built(i, FALSE))
  BY <1>1, <1>2, <1>3, QuietMove DEF Storing
<1>4. CASE Index!Fault /\ Index!Set(i, Index!Built(i, TRUE))
  <2>1. ~Index!NoFault
    BY <1>4 DEF Index!Fault, Index!NoFault, IndexInv, IndexTyped
  <2>. QED
    BY <1>1, <1>2, <1>4, <2>1, QuietMove DEF Storing
<1>5. CASE /\ Index!Fault
           /\ Index!Set(i, IF indexer[i].original THEN Index!Idle
                     ELSE [indexer[i] EXCEPT !.original = TRUE])
  <2>1. ~Index!NoFault
    BY <1>5 DEF Index!Fault, Index!NoFault, IndexInv, IndexTyped
  <2>. DEFINE new == IF indexer[i].original THEN Index!Idle
                     ELSE [indexer[i] EXCEPT !.original = TRUE]
  <2>2. new \in IndexerRecord /\ new.pc \notin Storing /\ NothingYet(new)
    BY <1>1, IdleRecord DEF IndexerRecord, IndexPlaces, Storing, NothingYet
  <2>. QED
    BY <1>1, <1>5, <2>1, <2>2, QuietMove DEF Storing
<1>. QED
  BY <1>3, <1>4, <1>5 DEF Index!Construct

\* The stages: what one of them passes on is a list of the first chunks, and of all when
\* nothing fails.
LEMMA StagePasses ==
    ASSUME IndexInv, Index!IndexAssumption, NEW i \in Indexers, indexer[i].pc \notin Storing,
           NEW place \in {"extract", "chunk", "embed", "pipeline"}, NEW chunks \in Seq(Nat),
           place = "pipeline" => indexer[i].original, Index!Passes(i, place, chunks),
           Index!Alone,
           \/ /\ Index!NoFault
              /\ WholeSoFar(indexer[i]) => chunks = Index!FirstOf(Chunks)
           \/ Index!Fault
    PROVE  IndexInv'
<1>. DEFINE new == [indexer[i] EXCEPT !.pc = place, !.chunks = chunks]
<1>1. indexer[i] \in IndexerRecord /\ NothingYet(indexer[i])
  BY DEF IndexInv, IndexTyped
<1>2. new \in IndexerRecord /\ new.pc \notin Storing /\ NothingYet(new)
  BY <1>1 DEF IndexerRecord, IndexPlaces, Storing, NothingYet
<1>3. Index!Set(i, new)
  BY DEF Index!Passes
<1>4. ASSUME Index!NoFault, WholeSoFar(indexer[i]) PROVE WholeSoFar(new)
  <2>1. chunks = Index!FirstOf(Chunks)
    BY <1>4 DEF Index!NoFault, Index!Fault, IndexInv, IndexTyped
  <2>. QED
    BY <2>1, <1>1, <1>4 DEF WholeSoFar, Storing, IndexerRecord
<1>. QED
  BY <1>2, <1>3, <1>4, QuietMove

\* A run that ends before it has stored anything.
LEMMA QuietEnd ==
    ASSUME IndexInv, NEW i \in Indexers, indexer[i].pc \notin Storing,
           Index!Set(i, Index!Idle), Index!Alone,
           Index!NoFault \/ Index!Fault
    PROVE  IndexInv'
  BY IdleRecord, QuietMove DEF Storing

\* The stages before the store, one by one.
LEMMA StagesKeep ==
    ASSUME IndexInv, Index!IndexAssumption, NEW i \in Indexers,
           Index!Parse(i) \/ Index!Extract(i) \/ Index!Chunk(i) \/ Index!Scan(i)
    PROVE  IndexInv'
<1>1. indexer[i] \in IndexerRecord /\ indexer[i].chunks \in Seq(Nat)
      /\ Len(indexer[i].chunks) \in Nat /\ Chunks \in Nat
  BY DEF IndexInv, IndexTyped, IndexerRecord, Index!IndexAssumption
<1>2. \A m \in Nat : Index!FirstOf(m) \in Seq(Nat)
  BY FirstChunks
<1>3. CASE Index!Parse(i)
  <2>1. indexer[i].pc \notin Storing /\ Index!Alone
    BY <1>3 DEF Index!Parse, Storing
  <2>2. CASE Index!NoFault /\ Index!Passes(i, "extract", Index!FirstOf(Chunks))
    BY <2>1, <2>2, <1>1, <1>2, StagePasses
  <2>3. CASE Index!Fault
             /\ \E m \in 1..(Chunks - 1) : Index!Passes(i, "extract", Index!FirstOf(m))
    BY <2>1, <2>3, <1>1, <1>2, StagePasses
  <2>4. CASE Index!Fault /\ Index!Set(i, Index!Idle)
    BY <2>1, <2>4, QuietEnd
  <2>. QED
    BY <2>2, <2>3, <2>4, <1>3 DEF Index!Parse
<1>4. CASE Index!Extract(i)
  <2>1. indexer[i].pc = "extract" /\ indexer[i].pc \notin Storing /\ Index!Alone
    BY <1>4 DEF Index!Extract, Storing
  <2>2. CASE Index!NoFault /\ Index!Passes(i, "chunk", indexer[i].chunks)
    <3>1. WholeSoFar(indexer[i]) => indexer[i].chunks = Index!FirstOf(Chunks)
      BY <2>1 DEF WholeSoFar
    <3>. QED
      BY <2>1, <2>2, <1>1, <3>1, StagePasses
  <2>3. CASE Index!Fault
             /\ \E m \in 0..(Len(indexer[i].chunks) - 1) : Index!Passes(i, "chunk",
                Index!FirstOf(m))
    <3>1. PICK m \in 0..(Len(indexer[i].chunks) - 1) : Index!Passes(i, "chunk",
          Index!FirstOf(m))
      BY <2>3
    <3>2. m \in Nat
      BY <1>1
    <3>. QED
      BY <2>1, <2>3, <3>1, <3>2, <1>2, StagePasses
  <2>. QED
    BY <2>2, <2>3, <1>4 DEF Index!Extract
<1>5. CASE Index!Chunk(i)
  <2>1. indexer[i].pc = "chunk" /\ indexer[i].pc \notin Storing /\ Index!Alone
    BY <1>5 DEF Index!Chunk, Storing
  <2>2. CASE Index!NoFault /\ Index!Passes(i, "embed", indexer[i].chunks)
    <3>1. WholeSoFar(indexer[i]) => indexer[i].chunks = Index!FirstOf(Chunks)
      BY <2>1 DEF WholeSoFar
    <3>. QED
      BY <2>1, <2>2, <1>1, <3>1, StagePasses
  <2>3. CASE /\ Index!Fault /\ indexer[i].chunks # <<>>
             /\ Index!Passes(i, "embed", Index!FirstOf(Len(indexer[i].chunks) - 1))
    <3>1. Len(indexer[i].chunks) - 1 \in Nat
      BY <2>3, <1>1
    <3>. QED
      BY <2>1, <2>3, <3>1, <1>2, StagePasses
  <2>. QED
    BY <2>2, <2>3, <1>5 DEF Index!Chunk
<1>6. CASE Index!Scan(i)
  <2>1. indexer[i].pc \notin Storing /\ indexer[i].original /\ Index!Alone
    BY <1>6 DEF Index!Scan, Storing
  <2>2. CASE Index!NoFault /\ Index!Passes(i, "pipeline", Index!FirstOf(Chunks))
    BY <2>1, <2>2, <1>1, <1>2, StagePasses
  <2>3. CASE Index!Fault
             /\ \E m \in 1..(Chunks - 1) : Index!Passes(i, "pipeline", Index!FirstOf(m))
    BY <2>1, <2>3, <1>1, <1>2, StagePasses
  <2>4. CASE Index!Fault /\ Index!Set(i, Index!Idle)
    BY <2>1, <2>4, QuietEnd
  <2>. QED
    BY <2>2, <2>3, <2>4, <1>6 DEF Index!Scan
<1>. QED
  BY <1>3, <1>4, <1>5, <1>6

\* The collection is looked for, looked for again, and made.
LEMMA PreparedRecord ==
    ASSUME IndexInv, Index!IndexAssumption, NEW i \in Indexers,
           indexer[i].pc \in {"collection", "again", "create"}
    PROVE  /\ Index!Prepared(i) \in IndexerRecord /\ Index!Prepared(i).pc \in {"parse", "add"}
           /\ NothingYet(Index!Prepared(i))
           /\ \A points, gone : Kept(Index!Prepared(i), points, gone)
           /\ WholeSoFar(indexer[i]) => WholeSoFar(Index!Prepared(i))
              /\ Index!Prepared(i).pc = "add"
<1>1. indexer[i] \in IndexerRecord /\ NothingYet(indexer[i]) /\ indexer[i].pc \notin Storing
  BY DEF IndexInv, IndexTyped, Storing
<1>2. /\ indexer[i].added = {} /\ indexer[i].buffer = <<>> /\ indexer[i].sent = 0
      /\ indexer[i].next = 1
  BY <1>1 DEF NothingYet
<1>. DEFINE new == Index!Prepared(i)
<1>3. /\ new \in IndexerRecord /\ new.pc \in {"parse", "add"}
      /\ new.added = {} /\ new.buffer = <<>> /\ new.sent = 0 /\ new.next = 1
      /\ new.original = indexer[i].original /\ new.local = indexer[i].local
      /\ new.chunks = indexer[i].chunks /\ new.vectors = indexer[i].vectors
      /\ new.closing = indexer[i].closing
      /\ ~new.original => new.pc = "add"
  BY <1>1, <1>2 DEF Index!Prepared, IndexerRecord, IndexPlaces, Storing
<1>. HIDE DEF new
<1>4. NothingYet(new)
  BY <1>3 DEF NothingYet
<1>5. \A points, gone : Kept(new, points, gone)
  BY <1>3 DEF Kept, AddedIsKept, SentIsStored
<1>6. ASSUME WholeSoFar(indexer[i]) PROVE WholeSoFar(new) /\ new.pc = "add"
  <2>1. /\ ~new.original /\ ~new.local /\ new.pc = "add" /\ ~new.closing
        /\ new.chunks = Index!FirstOf(Chunks) /\ new.vectors = 1..Chunks
    BY <1>6, <1>3 DEF WholeSoFar
  <2>2. /\ new.added = 1..(new.next - 1) /\ new.next \in 1..(Chunks + 1)
        /\ Index!Elements(new.buffer) \subseteq 1..Chunks
    BY <1>3 DEF Index!IndexAssumption, Index!Elements
  <2>. QED
    BY <2>1, <2>2 DEF WholeSoFar
<1>. QED
  BY <1>3, <1>4, <1>5, <1>6 DEF new

\* The collection is looked for.
LEMMA FindKeeps ==
    ASSUME IndexInv, Index!IndexAssumption, NEW i \in Indexers, Index!FindCollection(i)
           \/ Index!FindAgain(i)
    PROVE  IndexInv'
<1>1. PICK absent \in {"again", "create"} :
          indexer[i].pc \in {"collection", "again"} /\ Index!collection_exists(i, absent)
  BY DEF Index!FindCollection, Index!FindAgain
<1>. DEFINE on == [indexer[i] EXCEPT !.pc = absent]
<1>2. indexer[i] \in IndexerRecord /\ NothingYet(indexer[i]) /\ indexer[i].pc \notin Storing
      /\ Index!Alone
  BY <1>1 DEF IndexInv, IndexTyped, Storing, Index!collection_exists
<1>3. on \in IndexerRecord /\ on.pc \notin Storing /\ NothingYet(on)
      /\ (WholeSoFar(indexer[i]) => WholeSoFar(on))
  BY <1>1, <1>2 DEF IndexerRecord, IndexPlaces, Storing, NothingYet, WholeSoFar
<1>4. CASE Index!NoFault /\ Index!Set(i, Index!Prepared(i)) /\ (indexer[i].local
           \/ collection.exists)
  <2>1. /\ Index!Prepared(i) \in IndexerRecord /\ Index!Prepared(i).pc \in {"parse", "add"}
        /\ NothingYet(Index!Prepared(i)) /\ Kept(Index!Prepared(i), collection'.points, wiped')
        /\ WholeSoFar(indexer[i]) => WholeSoFar(Index!Prepared(i))
           /\ Index!Prepared(i).pc = "add"
    BY <1>1, PreparedRecord
  <2>2. /\ collection' \in [exists : BOOLEAN, points : SUBSET StoredPoint]
        /\ indexings' \in Nat /\ errors' \in Nat /\ Grows /\ Index!ReusedIsWhole'
    BY <1>2, <1>4 DEF Index!Alone, Index!NoFault, IndexInv, IndexTyped, Grows,
       Index!ReusedIsWhole
  <2>3. FaultlessStep(i, Index!Prepared(i))
    <3>. SUFFICES ASSUME errors' = 0
                  PROVE  /\ errors = 0 /\ WholeSoFar(Index!Prepared(i))
                            /\ Index!Prepared(i).pc = "add"
                         /\ collection' = collection /\ collection.exists
      BY <2>2 DEF FaultlessStep, StoresThere, Storing
    <3>1. errors = 0 /\ collection' = collection
      BY <1>2, <1>4 DEF Index!Alone, Index!NoFault
    <3>2. WholeSoFar(indexer[i]) /\ ~indexer[i].local
      BY <3>1 DEF IndexInv, Faultless, WholeSoFar
    <3>. QED
      BY <3>1, <3>2, <2>1, <1>4
  <2>. QED
    BY <2>1, <2>2, <2>3, <1>4, OneRunMoves
<1>5. CASE Index!Set(i, on) /\ (Index!NoFault \/ Index!Fault)
  BY <1>2, <1>3, <1>5, QuietMove
<1>. QED
  BY <1>1, <1>4, <1>5 DEF Index!collection_exists

\* The collection is created, or created again.
LEMMA CreateKeeps ==
    ASSUME IndexInv, Index!IndexAssumption, NEW i \in Indexers, Index!CreateCollection(i)
    PROVE  IndexInv'
<1>1. /\ indexer[i] \in IndexerRecord /\ NothingYet(indexer[i]) /\ indexer[i].pc = "create"
      /\ indexer[i].pc \notin Storing
      /\ collection.exists \in BOOLEAN
  BY DEF IndexInv, IndexTyped, Storing, Index!CreateCollection
<1>2. /\ collection' \in [exists : BOOLEAN, points : SUBSET StoredPoint]
      /\ collection'.points = collection.points
      /\ indexings' \in Nat /\ errors' \in Nat /\ Grows /\ Index!ReusedIsWhole'
  <2>1. collection \in [exists : BOOLEAN, points : SUBSET StoredPoint]
        /\ errors \in Nat /\ indexings \in Nat
    BY DEF IndexInv, IndexTyped
  <2>2. collection' \in [exists : BOOLEAN, points : SUBSET StoredPoint]
        /\ collection'.points = collection.points
    BY <2>1 DEF Index!CreateCollection
  <2>3. UNCHANGED <<wiped, reused, indexings>> /\ (Index!NoFault \/ Index!Fault)
    BY DEF Index!CreateCollection
  <2>4. indexings' \in Nat /\ errors' \in Nat
    BY <2>1, <2>3 DEF Index!NoFault, Index!Fault
  <2>5. Grows
    BY <2>2, <2>3 DEF Grows
  <2>6. Index!ReusedIsWhole'
    BY <2>3 DEF IndexInv, Index!ReusedIsWhole
  <2>. QED
    BY <2>2, <2>4, <2>5, <2>6
<1>3. CASE Index!Set(i, Index!Idle) /\ collection'.exists = collection.exists
           /\ (Index!NoFault \/ Index!Fault)
  <2>1. FaultlessStep(i, Index!Idle)
    BY <1>1, <1>2, <1>3, IdleRecord
    DEF FaultlessStep, StoresThere, Storing, Index!NoFault, Index!Fault, IndexInv, IndexTyped
  <2>2. Kept(Index!Idle, collection'.points, wiped')
    BY IdleRecord, NothingIsKept DEF Storing
  <2>. QED
    BY <1>2, <1>3, <2>1, <2>2, IdleRecord, OneRunMoves
<1>4. CASE Index!NoFault /\ Index!Set(i, Index!Prepared(i)) /\ collection'.exists
  <2>1. /\ Index!Prepared(i) \in IndexerRecord /\ Index!Prepared(i).pc \in {"parse", "add"}
        /\ NothingYet(Index!Prepared(i)) /\ Kept(Index!Prepared(i), collection'.points, wiped')
        /\ WholeSoFar(indexer[i]) => WholeSoFar(Index!Prepared(i))
           /\ Index!Prepared(i).pc = "add"
    BY <1>1, PreparedRecord
  <2>2. FaultlessStep(i, Index!Prepared(i))
    <3>. SUFFICES ASSUME errors' = 0
                  PROVE  /\ errors = 0 /\ WholeSoFar(Index!Prepared(i))
                            /\ Index!Prepared(i).pc = "add"
      BY <1>2, <1>4 DEF FaultlessStep, StoresThere, Storing
    <3>1. errors = 0
      BY <1>4 DEF Index!NoFault
    <3>2. WholeSoFar(indexer[i])
      BY <3>1 DEF IndexInv, Faultless
    <3>. QED
      BY <3>1, <3>2, <2>1
  <2>. QED
    BY <1>2, <1>4, <2>1, <2>2, OneRunMoves
<1>5. \/ Index!Set(i, Index!Idle) /\ collection'.exists = collection.exists /\ (Index!NoFault
         \/ Index!Fault)
      \/ Index!NoFault /\ Index!Set(i, Index!Prepared(i)) /\ collection'.exists
  <2>1. CASE Index!Fault /\ Index!Set(i, Index!Idle) /\ UNCHANGED collection
    BY <2>1
  <2>2. CASE /\ Index!NoFault /\ collection' = [collection EXCEPT !.exists = TRUE]
             /\ Index!Set(i, IF collection.exists THEN Index!Idle ELSE Index!Prepared(i))
    <3>1. collection'.exists = TRUE
      BY <2>2 DEF IndexInv, IndexTyped
    <3>. QED
      BY <3>1, <2>2, <1>1
  <2>. QED
    BY <2>1, <2>2 DEF Index!CreateCollection
<1>. QED
  BY <1>3, <1>4, <1>5

\* The chunks are embedded; all of them unless a batch fails.
LEMMA EmbedKeeps ==
    ASSUME IndexInv, Index!IndexAssumption, NEW i \in Indexers, Index!Embed(i)
    PROVE  IndexInv'
<1>. DEFINE all == Index!Elements(indexer[i].chunks)
            new(v) == [indexer[i] EXCEPT !.vectors = v, !.pc = "collection"]
<1>1. /\ indexer[i] \in IndexerRecord /\ indexer[i].pc = "embed"
      /\ indexer[i].pc \notin Storing /\ NothingYet(indexer[i]) /\ Index!Alone
      /\ indexer[i].chunks \in Seq(Nat)
  BY DEF Index!Embed, IndexInv, IndexTyped, Storing, IndexerRecord
<1>2. all \in SUBSET Nat
  BY <1>1, ElementsOfLists
<1>3. PICK v \in SUBSET all : Index!Set(i, new(v)) /\ (Index!NoFault \/ Index!Fault)
                              /\ (v = all \/ ~Index!NoFault)
  <2>1. CASE Index!NoFault /\ Index!Set(i, new(all))
    BY <2>1
  <2>2. CASE Index!Fault
             /\ \E b \in Index!Batches(EmbedBatch) : Index!Set(i, new(all \ Index!BatchAt(b,
                EmbedBatch)))
    <3>1. ~Index!NoFault
      BY <2>2 DEF Index!Fault, Index!NoFault, IndexInv, IndexTyped
    <3>. QED
      BY <2>2, <3>1
  <2>. QED
    BY <2>1, <2>2 DEF Index!Embed
<1>4. new(v) \in IndexerRecord /\ new(v).pc \notin Storing /\ NothingYet(new(v))
  BY <1>1, <1>2 DEF IndexerRecord, IndexPlaces, Storing, NothingYet
<1>5. ASSUME Index!NoFault, WholeSoFar(indexer[i]) PROVE WholeSoFar(new(v))
  <2>1. v = 1..Chunks
    <3>1. indexer[i].chunks = Index!FirstOf(Chunks)
      BY <1>1, <1>5 DEF WholeSoFar
    <3>. QED
      BY <3>1, <1>3, <1>5, FirstChunks DEF Index!IndexAssumption
  <2>2. /\ new(v).original = indexer[i].original /\ new(v).local = indexer[i].local
        /\ new(v).chunks = indexer[i].chunks /\ new(v).vectors = v
        /\ new(v).closing = indexer[i].closing /\ new(v).pc = "collection"
    BY <1>1 DEF IndexerRecord
  <2>. QED
    BY <1>1, <1>5, <2>1, <2>2 DEF WholeSoFar, Storing
<1>. QED
  BY <1>1, <1>3, <1>4, <1>5, QuietMove

\* A run of the original indexer, or one that fails or ends: nothing is owed for a state
\* without errors.
LEMMA MoveAfterError ==
    ASSUME IndexInv, NEW i \in Indexers, NEW new \in IndexerRecord, Index!Set(i, new),
           NothingYet(new), Kept(new, collection'.points, wiped'),
           collection' \in [exists : BOOLEAN, points : SUBSET StoredPoint],
           Index!NoFault \/ Index!Fault, Grows \/ Emptied, UNCHANGED <<reused, indexings>>,
           errors = 0 => Index!Fault
    PROVE  IndexInv'
<1>1. indexings' \in Nat /\ errors' \in Nat
  BY DEF IndexInv, IndexTyped, Index!NoFault, Index!Fault
<1>2. Index!ReusedIsWhole'
  BY DEF IndexInv, Index!ReusedIsWhole
<1>3. errors' # 0
  BY DEF IndexInv, IndexTyped, Index!NoFault, Index!Fault
<1>. QED
  BY <1>1, <1>2, <1>3, OneRunMoves DEF FaultlessStep

\* The chunks go to the buffer.
LEMMA BufferedRecord ==
    ASSUME IndexInv, NEW i \in Indexers, indexer[i].pc \notin Storing
    PROVE  /\ Index!Buffered(i) \in IndexerRecord /\ NothingYet(Index!Buffered(i))
           /\ \A points, gone : Kept(Index!Buffered(i), points, gone)
<1>1. /\ indexer[i] \in IndexerRecord /\ NothingYet(indexer[i])
      /\ indexer[i].chunks \in Seq(Nat)
  BY DEF IndexInv, IndexTyped, IndexerRecord
<1>2. Index!Elements(indexer[i].chunks) \in SUBSET Nat
  BY <1>1, ElementsOfLists
<1>3. /\ Index!Buffered(i) \in IndexerRecord /\ Index!Buffered(i).added = {}
         /\ Index!Buffered(i).buffer = <<>>
      /\ Index!Buffered(i).pc \in Storing
  BY <1>1, <1>2 DEF Index!Buffered, IndexerRecord, IndexPlaces, Storing, NothingYet
<1>. QED
  BY <1>3 DEF NothingYet, Kept, AddedIsKept, SentIsStored

\* Only the original indexer works at the pipeline, after an error.
LEMMA PipelineAfterError ==
    ASSUME IndexInv, NEW i \in Indexers, indexer[i].pc \in {"pipeline", "ingest"}
    PROVE  errors # 0
  BY DEF IndexInv, Faultless, WholeSoFar

\* The pipeline makes the collection anew where it does not find one, and stores some of
\* the chunks.
LEMMA PrepareKeeps ==
    ASSUME IndexInv, NEW i \in Indexers, Index!prepare_collection(i)
    PROVE  IndexInv'
<1>. DEFINE on == [indexer[i] EXCEPT !.pc = "ingest"]
<1>1. /\ indexer[i] \in IndexerRecord /\ NothingYet(indexer[i])
      /\ indexer[i].pc = "pipeline" /\ indexer[i].pc \notin Storing
      /\ errors # 0 /\ UNCHANGED <<reused, indexings>>
  BY PipelineAfterError DEF IndexInv, IndexTyped, Storing, Index!prepare_collection
<1>2. on \in IndexerRecord /\ NothingYet(on) /\ on.pc \notin Storing
  BY <1>1 DEF IndexerRecord, IndexPlaces, Storing, NothingYet
<1>3. PICK new \in {on, Index!Buffered(i)} : Index!Set(i, new)
  BY DEF Index!prepare_collection
<1>4. new \in IndexerRecord /\ NothingYet(new) /\ Kept(new, collection'.points, wiped')
  BY <1>1, <1>2, NothingIsKept, BufferedRecord
<1>5. Index!NoFault \/ Index!Fault
  BY DEF Index!prepare_collection
<1>6. /\ collection' \in [exists : BOOLEAN, points : SUBSET StoredPoint]
      /\ Grows \/ Emptied
  <2>1. CASE UNCHANGED <<collection, wiped>>
    BY <2>1 DEF IndexInv, IndexTyped, Grows
  <2>2. CASE /\ collection' \in {[exists |-> e, points |-> {}] : e \in BOOLEAN}
             /\ wiped' = wiped \cup Index!Owners
    BY <2>2 DEF Emptied
  <2>. QED
    BY <2>1, <2>2 DEF Index!prepare_collection
<1>. QED
  BY <1>1, <1>3, <1>4, <1>5, <1>6, MoveAfterError

\* The original indexer hands its chunks to the asynchronous pipeline.
LEMMA IngestKeeps ==
    ASSUME IndexInv, NEW i \in Indexers, Index!Ingest(i)
    PROVE  IndexInv'
<1>. DEFINE all == {Index!Point(i, n) : n \in Index!Elements(indexer[i].chunks)}
<1>1. /\ indexer[i] \in IndexerRecord /\ NothingYet(indexer[i])
      /\ indexer[i].pc = "ingest" /\ indexer[i].pc \notin Storing
      /\ errors # 0 /\ UNCHANGED <<wiped, reused, indexings>>
      /\ indexer[i].chunks \in Seq(Nat) /\ indexer[i].id \in Nat
  BY PipelineAfterError DEF IndexInv, IndexTyped, Storing, Index!Ingest, IndexerRecord
<1>2. all \in SUBSET StoredPoint
  BY <1>1, ElementsOfLists DEF Index!Point, StoredPoint
<1>3. PICK new \in {Index!Idle, Index!Buffered(i)} : Index!Set(i, new)
  BY DEF Index!Ingest
<1>4. new \in IndexerRecord /\ NothingYet(new) /\ Kept(new, collection'.points, wiped')
  BY <1>1, <1>3, IdleRecord, NothingIsKept, BufferedRecord DEF Storing
<1>5. Index!NoFault \/ Index!Fault
  BY DEF Index!Ingest
<1>6. PICK points \in SUBSET all : collection' = [collection EXCEPT !.points = @ \cup points]
  BY DEF Index!Ingest
<1>7. /\ collection' \in [exists : BOOLEAN, points : SUBSET StoredPoint]
      /\ Grows
  BY <1>1, <1>2, <1>6 DEF IndexInv, IndexTyped, Grows
<1>. QED
  BY <1>1, <1>3, <1>4, <1>5, <1>7, MoveAfterError

\* No server: the store is one in memory.
LEMMA NoServerKeeps ==
    ASSUME IndexInv, NEW i \in Indexers, Index!NoServer(i)
    PROVE  IndexInv'
<1>1. /\ indexer[i].pc \notin Storing /\ errors # 0
      /\ UNCHANGED <<collection, wiped, reused, indexings>>
  BY PipelineAfterError DEF Storing, Index!NoServer, Index!Alone
<1>2. /\ Index!Buffered(i) \in IndexerRecord /\ NothingYet(Index!Buffered(i))
      /\ Kept(Index!Buffered(i), collection'.points, wiped')
  BY <1>1, BufferedRecord
<1>. QED
  BY <1>1, <1>2, MoveAfterError DEF Index!NoServer, Grows, IndexInv, IndexTyped

\* The process dies.
LEMMA DieKeeps ==
    ASSUME IndexInv, NEW i \in Indexers, Index!Die(i)
    PROVE  IndexInv'
<1>1. Kept(Index!Idle, collection'.points, wiped')
  BY IdleRecord, NothingIsKept DEF Storing
<1>. QED
  BY <1>1, IdleRecord, MoveAfterError DEF Index!Die, Index!Alone, Grows, IndexInv, IndexTyped

\* A run reports: where nothing failed its chunks are all stored.
LEMMA ReportKeeps ==
    ASSUME IndexInv, Index!IndexAssumption, NEW i \in Indexers, Index!Report(i)
    PROVE  IndexInv'
<1>1. /\ indexer[i] \in IndexerRecord /\ indexer[i].pc = "report"
      /\ Index!Set(i, Index!Idle) /\ Index!NoFault /\ Index!Alone
  BY DEF Index!Report, IndexInv, IndexTyped
<1>2. Kept(Index!Idle, collection'.points, wiped')
  BY IdleRecord, NothingIsKept DEF Storing
<1>3. /\ collection' \in [exists : BOOLEAN, points : SUBSET StoredPoint]
      /\ indexings' \in Nat /\ errors' \in Nat /\ Grows /\ Index!ReusedIsWhole'
      /\ collection' = collection
  BY <1>1 DEF Index!Alone, Index!NoFault, IndexInv, IndexTyped, Grows, Index!ReusedIsWhole
<1>4. ASSUME errors = 0 PROVE Index!Covered(collection.points)
  <2>1. /\ wiped = {} /\ WholeSoFar(indexer[i])
    BY <1>4 DEF IndexInv, Faultless
  <2>2. /\ ~indexer[i].local /\ indexer[i].buffer = <<>>
        /\ indexer[i].added = 1..Chunks
    BY <2>1, <1>1 DEF WholeSoFar, Storing, Index!IndexAssumption
  <2>3. AddedIsKept(indexer[i], collection.points)
    BY <2>1 DEF IndexInv, Kept
  <2>4. \A n \in 1..Chunks : OfRun(indexer[i], n) \in collection.points
    BY <2>2, <2>3 DEF AddedIsKept, StoreOf, Index!Elements
  <2>. QED
    BY <2>4 DEF Index!Covered, OfRun
<1>5. FaultlessStep(i, Index!Idle)
  BY <1>1, <1>3, <1>4, IdleRecord DEF FaultlessStep, Index!NoFault, StoresThere, Storing
<1>. QED
  BY <1>1, <1>2, <1>3, <1>5, IdleRecord, OneRunMoves

\* A run that stores while nothing has failed.
LEMMA WholeWhileStoring ==
    ASSUME Index!IndexAssumption, NEW w \in IndexerRecord, WholeSoFar(w), w.pc \in Storing
    PROVE  /\ ~w.original /\ ~w.local
           /\ w.chunks = Index!FirstOf(Chunks) /\ w.vectors = 1..Chunks
           /\ Len(w.chunks) = Chunks /\ \A n \in 1..Chunks : w.chunks[n] = n
           /\ w.added = 1..(w.next - 1) /\ w.next \in 1..(Chunks + 1)
           /\ Index!Elements(w.buffer) \subseteq 1..Chunks
           /\ w.closing => w.pc # "add" /\ w.next = Chunks + 1
<1>1. /\ ~w.original /\ ~w.local
      /\ w.chunks = Index!FirstOf(Chunks) /\ w.vectors = 1..Chunks
      /\ w.added = 1..(w.next - 1) /\ w.next \in 1..(Chunks + 1)
      /\ Index!Elements(w.buffer) \subseteq 1..Chunks
  BY DEF WholeSoFar, Storing
<1>2. w.closing => w.pc # "add" /\ w.next = Chunks + 1
  BY DEF WholeSoFar
<1>. QED
  BY <1>1, <1>2, FirstChunks DEF Index!IndexAssumption

\* A chunk goes to the buffer.
LEMMA AddKeeps ==
    ASSUME IndexInv, Index!IndexAssumption, NEW i \in Indexers, Index!add_point(i)
    PROVE  IndexInv'
<1>. DEFINE w == indexer[i]
            n == w.chunks[w.next]
            buffer == Append(w.buffer, n)
            full == Len(buffer) >= BufferLimit
            held == [w EXCEPT !.buffer = buffer, !.next = @ + 1, !.sent = 0,
                              !.added = @ \cup {n}, !.pc = IF full THEN "flush" ELSE "add"]
            skipped == [w EXCEPT !.next = @ + 1]
<1>1. /\ w \in IndexerRecord /\ w.pc = "add" /\ w.chunks \in Seq(Nat) /\ w.buffer \in Seq(Nat)
      /\ w.next \in Nat \ {0} /\ w.next <= Len(w.chunks) /\ Index!Alone
      /\ w.added \in SUBSET Nat
      /\ Kept(w, collection.points, wiped)
  BY DEF Index!add_point, IndexInv, IndexTyped, IndexerRecord
<1>2. /\ n \in Nat /\ buffer \in Seq(Nat)
      /\ Index!Elements(buffer) = Index!Elements(w.buffer) \cup {n}
  <2>1. w.next \in 1..Len(w.chunks)
    BY <1>1
  <2>2. n \in Nat
    BY <1>1, <2>1
  <2>. HIDE DEF n, w
  <2>. QED
    BY <1>1, <2>2, ElementsOfLists
<1>3. /\ collection' \in [exists : BOOLEAN, points : SUBSET StoredPoint]
      /\ indexings' \in Nat /\ Grows /\ Index!ReusedIsWhole'
      /\ collection' = collection /\ wiped' = wiped /\ UNCHANGED <<reused, indexings>>
  BY <1>1 DEF Index!Alone, IndexInv, IndexTyped, Grows, Index!ReusedIsWhole
<1>4. CASE Index!Set(i, held) /\ Index!NoFault
  <2>. HIDE DEF n, buffer, w, full
  <2>1. held \in IndexerRecord /\ held.pc \in {"flush", "add"}
    <3>1. w.next + 1 \in Nat \ {0} /\ w.added \cup {n} \in SUBSET Nat
      BY <1>1, <1>2
    <3>2. (IF full THEN "flush" ELSE "add") \in {"flush", "add"}
      OBVIOUS
    <3>. QED
      BY <1>1, <1>2, <3>1, <3>2 DEF IndexerRecord, IndexPlaces, Storing
  <2>2. /\ held.id = w.id /\ held.memory = w.memory /\ held.local = w.local
        /\ held.original = w.original /\ held.chunks = w.chunks /\ held.vectors = w.vectors
        /\ held.closing = w.closing
        /\ held.buffer = buffer /\ held.added = w.added \cup {n} /\ held.sent = 0
        /\ held.next = w.next + 1
    BY <1>1 DEF IndexerRecord
  <2>. HIDE DEF held
  <2>3. NothingYet(held)
    BY <2>1 DEF NothingYet, Storing
  <2>4. Kept(held, collection'.points, wiped')
    <3>. SUFFICES ASSUME w.id \notin wiped
                  PROVE  AddedIsKept(held, collection.points)
                         /\ SentIsStored(held, collection.points)
      BY <2>2, <1>3 DEF Kept
    <3>1. AddedIsKept(held, collection.points)
      BY <1>1, <1>2, <2>2 DEF Kept, AddedIsKept, StoreOf, OfRun
    <3>2. SentIsStored(held, collection.points)
      BY <1>2, <2>2 DEF SentIsStored
    <3>. QED
      BY <3>1, <3>2
  <2>5. ASSUME WholeSoFar(w) PROVE WholeSoFar(held)
    <3>1. /\ ~w.original /\ ~w.local /\ ~w.closing
          /\ w.chunks = Index!FirstOf(Chunks) /\ w.vectors = 1..Chunks
          /\ Len(w.chunks) = Chunks /\ \A k \in 1..Chunks : w.chunks[k] = k
          /\ w.added = 1..(w.next - 1) /\ w.next \in 1..(Chunks + 1)
          /\ Index!Elements(w.buffer) \subseteq 1..Chunks
      BY <2>5, <1>1, WholeWhileStoring DEF Storing
    <3>2. w.next <= Chunks /\ n = w.next
      BY <3>1, <1>1 DEF Index!IndexAssumption, n
    <3>3. /\ held.added = 1..(held.next - 1) /\ held.next \in 1..(Chunks + 1)
          /\ Index!Elements(held.buffer) \subseteq 1..Chunks
      BY <3>1, <3>2, <1>1, <1>2, <2>2 DEF Index!IndexAssumption
    <3>. QED
      BY <2>1, <2>2, <3>1, <3>3 DEF WholeSoFar
  <2>6. FaultlessStep(i, held)
    <3>. SUFFICES ASSUME errors' = 0
                  PROVE  errors = 0 /\ WholeSoFar(held) /\ StoresThere(held, collection.exists)
      BY <1>3, <2>1 DEF FaultlessStep, Storing
    <3>1. errors = 0
      BY <1>4 DEF Index!NoFault
    <3>2. WholeSoFar(w) /\ StoresThere(w, collection.exists)
      BY <3>1 DEF IndexInv, Faultless, w
    <3>. QED
      BY <3>1, <3>2, <2>5, <1>1 DEF StoresThere, Storing
  <2>7. errors' \in Nat
    BY <1>4 DEF Index!NoFault, IndexInv, IndexTyped
  <2>. QED
    BY <1>3, <1>4, <2>1, <2>3, <2>4, <2>6, <2>7, OneRunMoves
<1>5. CASE Index!Fault /\ Index!Set(i, skipped)
  <2>. HIDE DEF w
  <2>1. /\ skipped \in IndexerRecord /\ skipped.pc = "add"
    <3>1. w.next + 1 \in Nat \ {0}
      BY <1>1
    <3>. QED
      BY <1>1, <3>1 DEF IndexerRecord
  <2>2. /\ skipped.id = w.id /\ skipped.memory = w.memory /\ skipped.local = w.local
        /\ skipped.buffer = w.buffer /\ skipped.added = w.added /\ skipped.sent = w.sent
    BY <1>1 DEF IndexerRecord
  <2>. HIDE DEF skipped
  <2>3. NothingYet(skipped) /\ Kept(skipped, collection'.points, wiped')
    BY <1>1, <1>3, <2>1, <2>2
    DEF NothingYet, Storing, Kept, AddedIsKept, SentIsStored, StoreOf, OfRun
  <2>. QED
    BY <1>3, <1>5, <2>1, <2>3, MoveAfterError
<1>. QED
  BY <1>4, <1>5 DEF Index!add_point

\* The buffer is sent for the last time.
LEMMA CloseKeeps ==
    ASSUME IndexInv, Index!IndexAssumption, NEW i \in Indexers, Index!close(i)
    PROVE  IndexInv'
<1>. DEFINE w == indexer[i]
            new == [w EXCEPT !.closing = TRUE, !.sent = 0,
                             !.pc = IF w.buffer = <<>> THEN "report" ELSE "flush"]
<1>1. /\ w \in IndexerRecord /\ w.pc = "add" /\ w.next > Len(w.chunks) /\ w.next \in Nat
      /\ w.buffer \in Seq(Nat)
      /\ Index!Set(i, new) /\ Index!Alone /\ Index!NoFault /\ Kept(w, collection.points, wiped)
  BY DEF Index!close, IndexInv, IndexTyped, IndexerRecord
<1>2. /\ collection' \in [exists : BOOLEAN, points : SUBSET StoredPoint]
      /\ indexings' \in Nat /\ errors' \in Nat /\ Grows /\ Index!ReusedIsWhole'
      /\ collection' = collection /\ wiped' = wiped
  BY <1>1 DEF Index!Alone, Index!NoFault, IndexInv, IndexTyped, Grows, Index!ReusedIsWhole
<1>3. /\ new \in IndexerRecord /\ new.pc \in {"report", "flush"}
      /\ new.pc = "report" => new.buffer = <<>>
  BY <1>1 DEF IndexerRecord, IndexPlaces, Storing
<1>4. /\ new.id = w.id /\ new.memory = w.memory /\ new.local = w.local
      /\ new.original = w.original /\ new.chunks = w.chunks /\ new.vectors = w.vectors
      /\ new.buffer = w.buffer /\ new.added = w.added /\ new.next = w.next
      /\ new.sent = 0 /\ new.closing = TRUE
  BY <1>1 DEF IndexerRecord
<1>. HIDE DEF new
<1>5. NothingYet(new) /\ new.pc \in Storing
  BY <1>3 DEF NothingYet, Storing
<1>6. Kept(new, collection'.points, wiped')
  BY <1>1, <1>2, <1>4 DEF Kept, AddedIsKept, SentIsStored, StoreOf, OfRun
<1>7. ASSUME WholeSoFar(w) PROVE WholeSoFar(new)
  <2>1. /\ ~w.original /\ ~w.local
        /\ w.chunks = Index!FirstOf(Chunks) /\ w.vectors = 1..Chunks
        /\ Len(w.chunks) = Chunks
        /\ w.added = 1..(w.next - 1) /\ w.next \in 1..(Chunks + 1)
        /\ Index!Elements(w.buffer) \subseteq 1..Chunks
    BY <1>7, <1>1, WholeWhileStoring DEF Storing
  <2>2. w.next = Chunks + 1
    BY <2>1, <1>1 DEF Index!IndexAssumption
  <2>. QED
    BY <1>3, <1>4, <2>1, <2>2 DEF WholeSoFar
<1>8. FaultlessStep(i, new)
  <2>. SUFFICES ASSUME errors' = 0
                PROVE  errors = 0 /\ WholeSoFar(new) /\ StoresThere(new, collection.exists)
    BY <1>2, <1>5 DEF FaultlessStep
  <2>1. errors = 0
    BY <1>1 DEF Index!NoFault
  <2>2. WholeSoFar(w) /\ StoresThere(w, collection.exists)
    BY <2>1 DEF IndexInv, Faultless
  <2>. QED
    BY <2>1, <2>2, <1>7, <1>1 DEF StoresThere, Storing
<1>. QED
  BY <1>1, <1>2, <1>3, <1>5, <1>6, <1>8, OneRunMoves

\* After a flush the run goes on, or reports.
LEMMA ContinuedRecord ==
    ASSUME NEW w \in IndexerRecord, w.pc = "flush"
    PROVE  LET new == Index!Continue(w)
           IN /\ new \in IndexerRecord /\ new.pc = IF w.closing THEN "report" ELSE "add"
              /\ new.id = w.id /\ new.memory = w.memory /\ new.local = w.local
              /\ new.original = w.original /\ new.chunks = w.chunks
              /\ new.vectors = w.vectors /\ new.buffer = w.buffer /\ new.added = w.added
              /\ new.next = w.next /\ new.sent = w.sent /\ new.closing = w.closing
<1>1. CASE w.closing
  BY <1>1 DEF Index!Continue, IndexerRecord, IndexPlaces, Storing
<1>2. CASE ~w.closing
  BY <1>2 DEF Index!Continue, IndexerRecord, IndexPlaces, Storing
<1>. QED
  BY <1>1, <1>2

\* A flush that is left, with nothing more counted as sent than before.
LEMMA LeftFlush ==
    ASSUME NEW w \in IndexerRecord, w.pc = "flush", NEW much \in {w.sent, 0},
           NEW points, NEW gone, Kept(w, points, gone)
    PROVE  LET new == Index!Continue([w EXCEPT !.sent = much])
           IN new \in IndexerRecord /\ NothingYet(new) /\ Kept(new, points, gone)
<1>. DEFINE quit == [w EXCEPT !.sent = much]
            new == Index!Continue(quit)
<1>1. /\ quit \in IndexerRecord /\ quit.pc = "flush"
      /\ quit.id = w.id /\ quit.memory = w.memory /\ quit.local = w.local
      /\ quit.buffer = w.buffer /\ quit.added = w.added /\ quit.sent = much
  <2>1. much \in Nat
    BY DEF IndexerRecord
  <2>. QED
    BY <2>1 DEF IndexerRecord
<1>. HIDE DEF quit
<1>2. /\ new \in IndexerRecord /\ new.pc \in Storing
      /\ new.id = w.id /\ new.memory = w.memory /\ new.local = w.local
      /\ new.buffer = w.buffer /\ new.added = w.added /\ new.sent = much
  BY <1>1, ContinuedRecord DEF Storing
<1>. HIDE DEF new
<1>3. NothingYet(new)
  BY <1>2 DEF NothingYet
<1>4. Kept(new, points, gone)
  <2>. SUFFICES ASSUME w.id \notin gone
                       PROVE AddedIsKept(new, points) /\ SentIsStored(new, points)
    BY <1>2 DEF Kept
  <2>1. AddedIsKept(new, points)
    BY <1>2 DEF Kept, AddedIsKept, StoreOf, OfRun
  <2>2. SentIsStored(new, points)
    <3>1. CASE much = w.sent
      BY <1>2, <3>1 DEF Kept, SentIsStored, StoreOf, OfRun
    <3>2. CASE much = 0
      BY <1>2, <3>2 DEF SentIsStored, IndexerRecord
    <3>. QED
      BY <3>1, <3>2
  <2>. QED
    BY <2>1, <2>2
<1>. QED
  BY <1>2, <1>3, <1>4 DEF new, quit

\* A slice of the buffer, and its points.
LEMMA SlicePoints ==
    ASSUME IndexInv, Index!IndexAssumption, NEW i \in Indexers
    PROVE  /\ Index!Slice(i) \subseteq Index!Elements(indexer[i].buffer)
           /\ {Index!Point(i, n) : n \in Index!Slice(i)} \in SUBSET StoredPoint
           /\ \A k \in 1..Len(indexer[i].buffer) :
                 k > indexer[i].sent /\ k <= indexer[i].sent + BufferLimit
                    => OfRun(indexer[i], indexer[i].buffer[k]) \in {Index!Point(i,
                    n) : n \in Index!Slice(i)}
<1>. DEFINE w == indexer[i]
            upto == IF w.sent + BufferLimit < Len(w.buffer)
                    THEN w.sent + BufferLimit ELSE Len(w.buffer)
<1>1. w \in IndexerRecord /\ w.buffer \in Seq(Nat) /\ w.sent \in Nat /\ w.id \in Nat
  BY DEF IndexInv, IndexTyped, IndexerRecord
<1>2. Index!Slice(i) = {w.buffer[k] : k \in (w.sent + 1)..upto}
  BY DEF Index!Slice
<1>3. (w.sent + 1)..upto \subseteq 1..Len(w.buffer)
  BY <1>1 DEF Index!IndexAssumption
<1>4. Index!Slice(i) \subseteq Index!Elements(w.buffer)
  BY <1>1, <1>2, <1>3 DEF Index!Elements
<1>5. {Index!Point(i, n) : n \in Index!Slice(i)} \in SUBSET StoredPoint
  BY <1>1, <1>4, ElementsOfLists DEF Index!Point, StoredPoint
<1>6. ASSUME NEW k \in 1..Len(w.buffer), k > w.sent, k <= w.sent + BufferLimit
      PROVE  OfRun(w, w.buffer[k]) \in {Index!Point(i, n) : n \in Index!Slice(i)}
  <2>1. k \in (w.sent + 1)..upto
    BY <1>1, <1>6 DEF Index!IndexAssumption
  <2>2. w.buffer[k] \in Index!Slice(i)
    BY <2>1, <1>2
  <2>. QED
    BY <2>2 DEF OfRun, Index!Point
<1>. QED
  BY <1>4, <1>5, <1>6

\* A chunk without a vector is passed over.
LEMMA PassOverKeeps ==
    ASSUME IndexInv, NEW i \in Indexers, Index!FlushSkips(i)
    PROVE  IndexInv'
<1>. DEFINE w == indexer[i]
<1>1. /\ w \in IndexerRecord /\ w.pc = "flush" /\ w.sent = 0 /\ Index!Alone
      /\ Kept(w, collection.points, wiped) /\ (Index!NoFault \/ Index!Fault)
      /\ Index!Set(i, Index!Continue(w))
  BY DEF Index!FlushSkips, IndexInv, IndexTyped
<1>2. w = [w EXCEPT !.sent = w.sent]
  BY <1>1 DEF IndexerRecord
<1>3. LET new == Index!Continue(w)
      IN new \in IndexerRecord /\ NothingYet(new) /\ Kept(new, collection.points, wiped)
  BY <1>1, <1>2, LeftFlush
<1>4. errors = 0 => Index!Fault
  <2>. SUFFICES ASSUME errors = 0, ~Index!Fault PROVE FALSE
    OBVIOUS
  <2>1. StoresThere(w, collection.exists)
    BY DEF IndexInv, Faultless
  <2>. QED
    BY <2>1, <1>1 DEF Index!FlushSkips, StoresThere, Storing
<1>5. /\ collection' = collection /\ wiped' = wiped /\ UNCHANGED <<reused, indexings>>
      /\ collection \in [exists : BOOLEAN, points : SUBSET StoredPoint] /\ Grows
  BY <1>1 DEF Index!Alone, IndexInv, IndexTyped, Grows
<1>. QED
  BY <1>1, <1>3, <1>4, <1>5, MoveAfterError

\* What a request brought to the store is there.
LEMMA Received ==
    ASSUME IndexInv, Index!IndexAssumption, NEW i \in Indexers,
           indexer[i].local \/ Index!Receive(i)
    PROVE  indexer[i].local \/
              /\ collection' \in [exists : BOOLEAN, points : SUBSET StoredPoint]
              /\ collection'.exists = collection.exists
              /\ collection'.points = collection.points \cup {Index!Point(i,
                 n) : n \in Index!Slice(i)}
<1>1. {Index!Point(i, n) : n \in Index!Slice(i)} \in SUBSET StoredPoint
  BY SlicePoints
<1>. QED
  BY <1>1 DEF Index!Receive, IndexInv, IndexTyped

\* A request fails.
LEMMA RaiseKeeps ==
    ASSUME IndexInv, Index!IndexAssumption, NEW i \in Indexers, Index!FlushRaises(i)
    PROVE  IndexInv'
<1>. DEFINE w == indexer[i]
<1>1. /\ w \in IndexerRecord /\ w.pc = "flush"
      /\ Kept(w, collection.points, wiped)
      /\ UNCHANGED <<wiped, reused, indexings>>
      /\ Index!NoFault \/ Index!Fault
  BY DEF Index!FlushRaises, IndexInv, IndexTyped
<1>2. /\ collection' \in [exists : BOOLEAN, points : SUBSET StoredPoint]
      /\ Grows
  <2>1. CASE UNCHANGED collection
    BY <2>1, <1>1 DEF IndexInv, IndexTyped, Grows
  <2>2. CASE ~w.local /\ Index!Receive(i)
    BY <2>2, <1>1, Received DEF Grows
  <2>. QED
    BY <2>1, <2>2 DEF Index!FlushRaises
<1>3. w = [w EXCEPT !.buffer = Index!BufferAfterError(i)]
  BY <1>1 DEF IndexerRecord, Index!BufferAfterError
<1>4. [w EXCEPT !.buffer = Index!BufferAfterError(i), !.sent = 0] = [w EXCEPT !.sent = 0]
  BY <1>1 DEF IndexerRecord, Index!BufferAfterError
<1>. DEFINE new == Index!Continue([w EXCEPT !.sent = 0])
<1>5. Index!Set(i, new)
  BY <1>4 DEF Index!FlushRaises
<1>6. Kept(w, collection'.points, wiped')
  BY <1>1, <1>2, KeptAsItGrows DEF Grows
<1>7. new \in IndexerRecord /\ NothingYet(new) /\ Kept(new, collection'.points, wiped')
  BY <1>1, <1>6, LeftFlush
<1>8. errors = 0 => Index!Fault
  <2>. SUFFICES ASSUME errors = 0, ~Index!Fault PROVE FALSE
    OBVIOUS
  <2>1. StoresThere(w, collection.exists) /\ WholeSoFar(w)
    BY DEF IndexInv, Faultless
  <2>2. Index!Slice(i) \subseteq w.vectors
    BY <2>1, <1>1, WholeWhileStoring, SlicePoints DEF Storing
  <2>. QED
    BY <2>1, <2>2, <1>1 DEF Index!FlushRaises, StoresThere, Storing
<1>. QED
  BY <1>1, <1>2, <1>5, <1>7, <1>8, MoveAfterError

\* A request that succeeds: the slice is stored, and with the last one the whole buffer.
LEMMA SendKeeps ==
    ASSUME IndexInv, Index!IndexAssumption, NEW i \in Indexers, Index!FlushSends(i)
    PROVE  IndexInv'
<1>. DEFINE w == indexer[i]
            upto == w.sent + BufferLimit
            points == {Index!Point(i, n) : n \in Index!Slice(i)}
            record == IF w.local THEN [w EXCEPT !.memory = @ \cup points] ELSE w
            emptied == [record EXCEPT !.buffer = <<>>, !.sent = 0]
            partly == [record EXCEPT !.sent = upto]
<1>1. /\ w \in IndexerRecord /\ w.pc = "flush" /\ Index!NoFault
      /\ w.buffer \in Seq(Nat) /\ w.sent \in Nat /\ upto \in Nat
         /\ w.memory \in SUBSET StoredPoint
      /\ Kept(w, collection.points, wiped)
      /\ UNCHANGED <<wiped, reused, indexings>>
  BY DEF Index!FlushSends, IndexInv, IndexTyped, IndexerRecord, Index!IndexAssumption
<1>2. points \in SUBSET StoredPoint
  BY SlicePoints
<1>3. /\ collection' \in [exists : BOOLEAN, points : SUBSET StoredPoint]
      /\ collection'.exists = collection.exists
      /\ collection'.points = collection.points \cup IF w.local THEN {} ELSE points
  <2>1. CASE w.local
    BY <2>1 DEF Index!FlushSends, Index!Receive, IndexInv, IndexTyped
  <2>2. CASE ~w.local
    BY <2>2, Received DEF Index!FlushSends
  <2>. QED
    BY <2>1, <2>2
<1>. HIDE DEF points
<1>4. /\ record \in IndexerRecord /\ record.pc = "flush" /\ record.id = w.id
      /\ record.local = w.local /\ record.original = w.original
      /\ record.chunks = w.chunks /\ record.vectors = w.vectors
      /\ record.buffer = w.buffer /\ record.added = w.added /\ record.next = w.next
      /\ record.sent = w.sent /\ record.closing = w.closing
      /\ w.local => record.memory = w.memory \cup points
  BY <1>1, <1>2 DEF IndexerRecord
<1>. HIDE DEF record
<1>5. StoreOf(record, collection'.points) = StoreOf(w, collection.points) \cup points
  BY <1>3, <1>4 DEF StoreOf
<1>6. ASSUME w.id \notin wiped, NEW k \in 1..Len(w.buffer), k <= upto
      PROVE  OfRun(w, w.buffer[k]) \in StoreOf(record, collection'.points)
  <2>1. CASE k <= w.sent
    BY <2>1, <1>1, <1>5, <1>6 DEF Kept, SentIsStored
  <2>2. CASE k > w.sent
    BY <2>2, <1>1, <1>5, <1>6, SlicePoints DEF points
  <2>. QED
    BY <2>1, <2>2, <1>1
<1>7. Index!Set(i, IF upto >= Len(w.buffer) THEN Index!Continue(emptied) ELSE partly)
  BY DEF Index!FlushSends, Index!Sent, record, points
<1>8. /\ Grows /\ errors' = errors /\ errors' \in Nat /\ indexings' \in Nat
         /\ Index!ReusedIsWhole'
      /\ wiped' = wiped
  BY <1>1, <1>3 DEF Grows, Index!NoFault, IndexInv, IndexTyped, Index!ReusedIsWhole
<1>9. ASSUME errors = 0 PROVE WholeSoFar(w) /\ StoresThere(w, collection.exists)
  BY <1>9 DEF IndexInv, Faultless
<1>10. CASE upto >= Len(w.buffer)
  <2>. DEFINE new == Index!Continue(emptied)
  <2>1. /\ emptied \in IndexerRecord /\ emptied.pc = "flush" /\ emptied.id = w.id
        /\ emptied.local = w.local /\ emptied.original = w.original
        /\ emptied.chunks = w.chunks /\ emptied.vectors = w.vectors
        /\ emptied.buffer = <<>> /\ emptied.added = w.added /\ emptied.next = w.next
        /\ emptied.sent = 0 /\ emptied.closing = w.closing
        /\ emptied.memory = record.memory
    <3>1. emptied \in IndexerRecord
      <4>1. <<>> \in Seq(Nat) /\ 0 \in Nat
        OBVIOUS
      <4>. QED
        BY <1>4, <4>1 DEF IndexerRecord
    <3>. QED
      BY <1>4, <3>1 DEF IndexerRecord
  <2>. HIDE DEF emptied
  <2>2. /\ new \in IndexerRecord /\ new.pc = IF w.closing THEN "report" ELSE "add"
        /\ new.id = w.id /\ new.local = w.local /\ new.original = w.original
        /\ new.chunks = w.chunks /\ new.vectors = w.vectors
        /\ new.buffer = <<>> /\ new.added = w.added /\ new.next = w.next
        /\ new.sent = 0 /\ new.closing = w.closing /\ new.memory = record.memory
    BY <2>1, ContinuedRecord
  <2>. HIDE DEF new
  <2>3. NothingYet(new) /\ new.pc \in Storing
    BY <2>2 DEF NothingYet, Storing
  <2>4. Kept(new, collection'.points, wiped')
    <3>. SUFFICES ASSUME w.id \notin wiped
                  PROVE  AddedIsKept(new, collection'.points)
                         /\ SentIsStored(new, collection'.points)
      BY <1>8, <2>2 DEF Kept
    <3>1. StoreOf(new, collection'.points) = StoreOf(record, collection'.points)
      BY <1>4, <2>2 DEF StoreOf
    <3>2. \A k \in 1..Len(w.buffer) : OfRun(w, w.buffer[k]) \in StoreOf(record,
          collection'.points)
      BY <1>1, <1>6, <1>10
    <3>3. ASSUME NEW n \in w.added PROVE OfRun(w, n) \in StoreOf(record, collection'.points)
      <4>1. CASE n \in Index!Elements(w.buffer)
        <5>1. PICK k \in 1..Len(w.buffer) : n = w.buffer[k]
          BY <4>1, <1>1, ElementsOfLists
        <5>. QED
          BY <5>1, <3>2
      <4>2. CASE OfRun(w, n) \in StoreOf(w, collection.points)
        BY <4>2, <1>5
      <4>. QED
        BY <4>1, <4>2, <1>1 DEF Kept, AddedIsKept
    <3>4. AddedIsKept(new, collection'.points)
      BY <3>1, <3>3, <2>2 DEF AddedIsKept, OfRun
    <3>5. SentIsStored(new, collection'.points)
      BY <2>2 DEF SentIsStored
    <3>. QED
      BY <3>4, <3>5
  <2>5. ASSUME errors = 0 PROVE WholeSoFar(new)
    <3>1. /\ ~w.original /\ ~w.local
          /\ w.chunks = Index!FirstOf(Chunks) /\ w.vectors = 1..Chunks
          /\ w.added = 1..(w.next - 1) /\ w.next \in 1..(Chunks + 1)
          /\ w.closing => w.next = Chunks + 1
      BY <1>1, <1>9, <2>5, WholeWhileStoring DEF Storing
    <3>2. Index!Elements(new.buffer) \subseteq 1..Chunks
      BY <2>2 DEF Index!Elements
    <3>. QED
      BY <3>1, <3>2, <2>2, <1>1 DEF WholeSoFar, Storing, IndexerRecord
  <2>6. FaultlessStep(i, new)
    BY <2>3, <2>5, <1>1, <1>3, <1>8, <1>9 DEF FaultlessStep, StoresThere, Storing
  <2>. QED
    BY <1>3, <1>7, <1>8, <1>10, <2>2, <2>3, <2>4, <2>6, OneRunMoves DEF new
<1>11. CASE ~(upto >= Len(w.buffer))
  <2>1. /\ partly \in IndexerRecord /\ partly.pc = "flush" /\ partly.id = w.id
        /\ partly.local = w.local /\ partly.original = w.original
        /\ partly.chunks = w.chunks /\ partly.vectors = w.vectors
        /\ partly.buffer = w.buffer /\ partly.added = w.added /\ partly.next = w.next
        /\ partly.sent = upto /\ partly.closing = w.closing
        /\ partly.memory = record.memory
    BY <1>1, <1>4 DEF IndexerRecord
  <2>. HIDE DEF partly
  <2>2. NothingYet(partly) /\ partly.pc \in Storing
    BY <2>1 DEF NothingYet, Storing
  <2>3. Kept(partly, collection'.points, wiped')
    <3>. SUFFICES ASSUME w.id \notin wiped
                  PROVE  /\ AddedIsKept(partly, collection'.points)
                         /\ SentIsStored(partly, collection'.points)
      BY <1>8, <2>1 DEF Kept
    <3>1. StoreOf(partly, collection'.points) = StoreOf(record, collection'.points)
      BY <1>4, <2>1 DEF StoreOf
    <3>2. AddedIsKept(partly, collection'.points)
      <4>1. AddedIsKept(w, collection.points)
        BY <1>1 DEF Kept
      <4>2. \A n \in w.added : \/ OfRun(w, n) \in StoreOf(partly, collection'.points)
                               \/ n \in Index!Elements(w.buffer)
        BY <4>1, <3>1, <1>5 DEF AddedIsKept
      <4>. QED
        BY <4>2, <2>1 DEF AddedIsKept, OfRun
    <3>3. SentIsStored(partly, collection'.points)
      <4>. HIDE DEF upto
      <4>1. \A k \in 1..Len(w.buffer) :
               k <= upto => OfRun(w, w.buffer[k]) \in StoreOf(partly, collection'.points)
        BY <3>1, <1>6
      <4>2. DOMAIN w.buffer = 1..Len(w.buffer)
        BY <1>1
      <4>3. \A n : OfRun(partly, n) = OfRun(w, n)
        BY <2>1 DEF OfRun
      <4>. HIDE DEF w
      <4>. QED
        BY <4>1, <4>2, <4>3, <2>1 DEF SentIsStored
    <3>. QED
      BY <3>2, <3>3
  <2>4. ASSUME errors = 0 PROVE WholeSoFar(partly)
    BY <1>1, <1>9, <2>1, <2>4 DEF WholeSoFar
  <2>5. FaultlessStep(i, partly)
    BY <2>2, <2>4, <1>1, <1>3, <1>8, <1>9 DEF FaultlessStep, StoresThere, Storing
  <2>. QED
    BY <1>3, <1>7, <1>8, <1>11, <2>1, <2>2, <2>3, <2>5, OneRunMoves
<1>. QED
  BY <1>10, <1>11

\* No run has begun.
LEMMA IndexInit == Index!Init => IndexInv
<1>. SUFFICES ASSUME Index!Init PROVE IndexInv
  OBVIOUS
<1>1. \A i \in Indexers : indexer[i] = Index!Idle
  BY DEF Index!Init
<1>2. IndexTyped
  BY IdleRecord DEF Index!Init, IndexTyped
<1>3. \A i \in Indexers : Kept(indexer[i], collection.points, wiped)
  BY <1>1, IdleRecord, NothingIsKept DEF Storing
<1>4. Faultless
  BY <1>1, IdleRecord DEF Faultless, Index!Init, StoresThere, Storing
<1>. QED
  BY <1>1, <1>2, <1>3, <1>4, IdleRecord DEF IndexInv, Index!ReusedIsWhole, Index!Init

\* Every step of a run keeps what is known of the index.
LEMMA IndexStep == IndexInv /\ Index!IndexAssumption /\ [Index!Next]_Index!vars => IndexInv'
<1>. SUFFICES ASSUME IndexInv, Index!IndexAssumption, [Index!Next]_Index!vars PROVE IndexInv'
  OBVIOUS
<1>1. CASE UNCHANGED Index!vars
  BY <1>1 DEF Index!vars, IndexInv, IndexTyped, Faultless, AtWork, Index!ReusedIsWhole
<1>2. ASSUME NEW i \in Indexers, NEW force \in BOOLEAN, Index!Start(i, force) PROVE IndexInv'
  BY <1>2, StartKeeps
<1>3. ASSUME NEW i \in Indexers,
             \/ Index!Lookup(i) \/ Index!Construct(i)
             \/ Index!Parse(i) \/ Index!Extract(i) \/ Index!Chunk(i) \/ Index!Embed(i)
                \/ Index!Scan(i)
             \/ Index!FindCollection(i) \/ Index!FindAgain(i) \/ Index!CreateCollection(i)
      PROVE  IndexInv'
  BY <1>3, LookupKeeps, ConstructKeeps, StagesKeep, EmbedKeeps, FindKeeps, CreateKeeps
<1>4. ASSUME NEW i \in Indexers,
             \/ Index!prepare_collection(i) \/ Index!Ingest(i) \/ Index!NoServer(i)
             \/ Index!add_point(i) \/ Index!close(i)
             \/ Index!FlushSkips(i) \/ Index!FlushSends(i) \/ Index!FlushRaises(i)
             \/ Index!Report(i) \/ Index!Die(i)
      PROVE  IndexInv'
  BY <1>4, PrepareKeeps, IngestKeeps, NoServerKeeps, AddKeeps, CloseKeeps, PassOverKeeps,
     SendKeeps, RaiseKeeps, ReportKeeps, DieKeeps
<1>. QED
  BY <1>1, <1>2, <1>3, <1>4 DEF Index!Next

\* What is known of the index says that its chunks are accounted for.
LEMMA IndexImplied == IndexInv => Index!IndexIsAccountedFor
<1>. SUFFICES ASSUME IndexInv PROVE Index!StoredOrHeld
  BY DEF Index!IndexIsAccountedFor, IndexInv
<1>. SUFFICES ASSUME NEW i \in Indexers, indexer[i].id \notin wiped, NEW n \in indexer[i].added
              PROVE  Index!Point(i, n) \in Index!Stored(i)
                     \/ n \in Index!Elements(indexer[i].buffer)
  BY DEF Index!StoredOrHeld
<1>1. AddedIsKept(indexer[i], collection.points)
  BY DEF IndexInv, Kept
<1>. QED
  BY <1>1 DEF AddedIsKept, OfRun, Index!Point, StoreOf, Index!Stored

-----------------------------------------------------------------------------
(* The gateway: run records, keys and metrics *)

GatewayStatuses == {"NONE", "RUNNING", "SUCCESS", "FAILED", "BLOCKED"}
RunRecords == [status : GatewayStatuses, steps : Nat, saved : BOOLEAN]
Occupations == [op : {"idle", "run", "rerun", "stop", "resume", "retry"},
                run : Nat, copy : RunRecords, over : BOOLEAN]

\* A thread at work serves a run that has a record, and holds a copy of one.
AtWorkOnRun(t) ==
    /\ thread[t].op # "idle"
    /\ thread[t].run \in Gateway!Created
    /\ thread[t].copy.status # "NONE"

GatewayTyped ==
    /\ thread \in [Threads -> Occupations]
    /\ records \in [Gateway!RunIds -> RunRecords]
    /\ remembered \in [Keys -> Nat]
    /\ metrics \in [started : Nat, observed : Nat]
    /\ restarts \in Nat
    /\ \A t \in Threads : Gateway!Free(t) \/ AtWorkOnRun(t)

\* The runs are numbered as they are created, and each has its key.
CreatedInOrder == \E n \in Nat : Gateway!Created = 1 .. n
HaveKeys == /\ DOMAIN keyOf = Gateway!Created
            /\ \A r \in Gateway!Created : keyOf[r] \in Keys

\* The key of an answered run is remembered while it lives.
AnsweredAreRemembered == /\ answered \subseteq Gateway!Created
                         /\ \A r \in answered : remembered[keyOf[r]] # 0

PrecedesCreated == precedes \subseteq Gateway!Created \X Gateway!Created

KeyInv == /\ CreatedInOrder /\ HaveKeys /\ AnsweredAreRemembered
          /\ PrecedesCreated /\ Gateway!DuplicatesOverlap

(* Types *)

\* The number of the next run is one that no run has.
LEMMA NextIsNew ==
    ASSUME GatewayTyped, CreatedInOrder
    PROVE  /\ Cardinality(Gateway!Created) + 1 \in Nat \ {0}
           /\ Cardinality(Gateway!Created) + 1 \notin Gateway!Created
           /\ Gateway!Created \cup {Cardinality(Gateway!Created) + 1} = 1 .. Cardinality(Gateway!Created) + 1
<1>1. PICK n \in Nat : Gateway!Created = 1 .. n
  BY DEF CreatedInOrder
<1>2. Cardinality(1 .. n) = n
  <2>1. Cardinality(1 .. n) = IF 1 > n THEN 0 ELSE n - 1 + 1
    BY FS_Interval
  <2>2. QED
    BY <1>1, <2>1
<1>3. Cardinality(Gateway!Created) = n
  BY <1>1, <1>2
<1>4. QED
  BY <1>1, <1>3

\* A write of a status over the record of a run that exists creates no run.
LEMMA CreatedKept ==
    ASSUME GatewayTyped, NEW r \in Gateway!Created, NEW record, record.status # "NONE",
           records' = [records EXCEPT ![r] = record]
    PROVE  Gateway!Created' = Gateway!Created
<1>1. r \in Gateway!RunIds /\ record # Gateway!NoRecord
  BY DEF Gateway!Created, Gateway!NoRecord, Gateway!Record
<1>2. \A q \in Gateway!RunIds : records'[q] = IF q = r THEN record ELSE records[q]
  BY <1>1 DEF GatewayTyped
<1>3. \A q \in Gateway!RunIds : q \in Gateway!Created' <=> q \in Gateway!Created
  BY <1>1, <1>2 DEF Gateway!Created
<1>4. QED
  BY <1>3 DEF Gateway!Created

\* What the gateway counts.
LEMMA GatewayCounts ==
    \A S : Gateway!Cardinality(S) = Cardinality(S)
BY DEF Gateway!Cardinality, Cardinality

\* The sets the gateway takes for finite are.
LEMMA GatewayIsFinite ==
    \A S : Gateway!IsFiniteSet(S) <=> IsFiniteSet(S)
BY DEF Gateway!IsFiniteSet, IsFiniteSet

\* A thread that changes what it serves is typed when that is.
ServedNow(t, served) ==
    /\ thread' = [thread EXCEPT ![t] = served]
    /\ served \in Occupations
    /\ \/ served = Gateway!Idle
       \/ served.op # "idle" /\ served.run \in Gateway!Created'
          /\ served.copy.status # "NONE"

RecordsAndThreads ==
    /\ thread \in [Threads -> Occupations]
    /\ \A t \in Threads : Gateway!Free(t) \/ AtWorkOnRun(t)

\* A step that changes what one thread serves keeps the threads typed.
LEMMA ThreadsTypedStep ==
    ASSUME GatewayTyped, NEW t \in Threads, NEW served, ServedNow(t, served),
           Gateway!Created \subseteq Gateway!Created'
    PROVE  RecordsAndThreads'
<1>1. thread' \in [Threads -> Occupations]
  BY DEF GatewayTyped, ServedNow
<1>2. ASSUME NEW u \in Threads PROVE Gateway!Free(u)' \/ AtWorkOnRun(u)'
  <2>1. CASE u = t
    <3>1. thread'[u] = served
      BY <2>1 DEF GatewayTyped, ServedNow
    <3>2. QED
      BY <3>1 DEF ServedNow, Gateway!Free, AtWorkOnRun, Gateway!Idle, Gateway!NoRecord,
         Gateway!Record
  <2>2. CASE u # t
    <3>1. thread'[u] = thread[u]
      BY <2>2 DEF GatewayTyped, ServedNow
    <3>2. Gateway!Free(u) \/ AtWorkOnRun(u)
      BY DEF GatewayTyped
    <3>3. QED
      BY <3>1, <3>2 DEF Gateway!Free, AtWorkOnRun, Gateway!Idle, Gateway!NoRecord,
         Gateway!Record
  <2>3. QED
    BY <2>1, <2>2
<1>3. QED
  BY <1>1, <1>2 DEF RecordsAndThreads

\* What a thread that serves something holds.
LEMMA Served ==
    ASSUME GatewayTyped, NEW t \in Threads, thread[t].op # "idle"
    PROVE  /\ thread[t].run \in Gateway!Created /\ thread[t].run \in Gateway!RunIds
           /\ thread[t].copy \in RunRecords /\ thread[t].copy.status # "NONE"
           /\ thread[t] \in Occupations
BY DEF GatewayTyped, Gateway!Free, AtWorkOnRun, Gateway!Idle, Occupations, Gateway!Created

\* What a step does to the threads and the records: a thread and the record of
\* the run it serves are written, or one of the two.
WritesRecord(t, served, r, record) ==
    /\ ServedNow(t, served)
    /\ r \in Gateway!Created /\ record \in RunRecords /\ record.status # "NONE"
    /\ records' = [records EXCEPT ![r] = record]

\* A submission gives a free thread a new run and writes its first record.
LEMMA SubmitWrites ==
    ASSUME GatewayTyped, CreatedInOrder, NEW t \in Threads, NEW k \in Keys,
           Gateway!Submit(t, k),
           NEW r, r = Cardinality(Gateway!Created) + 1
    PROVE  /\ r \in Gateway!RunIds /\ r \notin Gateway!Created
              /\ Gateway!Created' = Gateway!Created \cup {r}
           /\ ServedNow(t, [op |-> "run", run |-> r, copy |-> Gateway!NewRecord,
              over |-> FALSE])
           /\ records' = [records EXCEPT ![r] = Gateway!NewRecord]
<1>1. /\ r \in Gateway!RunIds /\ r \notin Gateway!Created /\ r \in Nat
      /\ records' = [records EXCEPT ![r] = Gateway!NewRecord]
      /\ thread' = [thread EXCEPT ![t] = [op |-> "run", run |-> r,
                        copy |-> Gateway!NewRecord, over |-> FALSE]]
  BY NextIsNew, GatewayCounts DEF Gateway!Submit
<1>2. \A q \in Gateway!RunIds : records'[q] = IF q = r THEN Gateway!NewRecord ELSE records[q]
  BY <1>1 DEF GatewayTyped
<1>3. Gateway!NewRecord # Gateway!NoRecord /\ Gateway!NewRecord \in RunRecords
      /\ Gateway!NewRecord.status # "NONE"
  BY DEF Gateway!NewRecord, Gateway!NoRecord, Gateway!Record, RunRecords, GatewayStatuses
<1>4. \A q \in Gateway!RunIds : q \in Gateway!Created' <=> q \in Gateway!Created \/ q = r
  BY <1>2, <1>3 DEF Gateway!Created
<1>5. Gateway!Created' = Gateway!Created \cup {r}
  BY <1>1, <1>4 DEF Gateway!Created
<1>6. QED
  BY <1>1, <1>3, <1>5 DEF ServedNow, Occupations

\* A checkpoint writes the record of the run that its thread goes on serving.
LEMMA CheckpointWrites ==
    ASSUME GatewayTyped, Gateway!GatewayAssumption, NEW t \in Threads, Gateway!Checkpoint(t)
    PROVE  \E served, record :
             /\ WritesRecord(t, served, thread[t].run, record)
             /\ served.op = thread[t].op /\ served.run = thread[t].run
<1>. DEFINE r == thread[t].run
            done(ruling) == thread[t].copy.steps + (IF ruling = "RUNNING" THEN 1 ELSE 0)
            copy(ruling) == Gateway!Record(ruling, done(ruling), TRUE)
            served(ruling) == [thread[t] EXCEPT !.copy = copy(ruling),
                                     !.over = ruling # "RUNNING" \/ done(ruling) = Steps]
<1>1. PICK ruling \in {"RUNNING", "BLOCKED", "FAILED"} :
         /\ records' = [records EXCEPT ![r] = copy(ruling)]
         /\ thread' = [thread EXCEPT ![t].copy = copy(ruling),
                        ![t].over = ruling # "RUNNING" \/ done(ruling) = Steps]
  BY DEF Gateway!Checkpoint, Gateway!StepVerdicts
<1>2. thread[t].op # "idle"
  BY DEF Gateway!Checkpoint, Gateway!EngineOps
<1>3. /\ thread[t] \in Occupations /\ r \in Gateway!Created /\ thread[t].copy \in RunRecords
  BY <1>2, Served
<1>4. done(ruling) \in Nat
  BY <1>3 DEF RunRecords
<1>5. /\ copy(ruling) \in RunRecords /\ copy(ruling).status # "NONE"
      /\ (ruling # "RUNNING" \/ done(ruling) = Steps) \in BOOLEAN
  BY <1>4 DEF Gateway!Record, RunRecords, GatewayStatuses
<1>. HIDE DEF done, copy, r
<1>6. thread' = [thread EXCEPT ![t] = served(ruling)]
  BY <1>1 DEF GatewayTyped
<1>7. /\ served(ruling) \in Occupations /\ served(ruling).copy = copy(ruling)
      /\ served(ruling).op = thread[t].op /\ served(ruling).run = thread[t].run
  BY <1>3, <1>5 DEF Occupations
<1>. HIDE DEF served
<1>8. Gateway!Created' = Gateway!Created
  BY <1>1, <1>3, <1>5, CreatedKept
<1>9. ServedNow(t, served(ruling))
  BY <1>2, <1>3, <1>5, <1>6, <1>7, <1>8 DEF ServedNow, r
<1>10. WritesRecord(t, served(ruling), thread[t].run, copy(ruling))
  BY <1>1, <1>3, <1>5, <1>9 DEF WritesRecord, r
<1>11. QED
  BY <1>7, <1>10

\* A thread that ends what it serves leaves a final status.
LEMMA EndWrites ==
    ASSUME GatewayTyped, NEW t \in Threads, Gateway!EndRun(t) \/ Gateway!EngineRaises(t)
           \/ Gateway!ApplyStop(t)
    PROVE  /\ thread[t].op # "idle"
           /\ \E record : /\ WritesRecord(t, Gateway!Idle, thread[t].run, record)
                          /\ record.status # "RUNNING"
<1>. DEFINE r == thread[t].run
<1>1. thread[t].op # "idle"
  BY DEF Gateway!EndRun, Gateway!EngineRaises, Gateway!ApplyStop, Gateway!EngineOps,
     Gateway!Serves
<1>2. /\ r \in Gateway!Created /\ thread[t].copy \in RunRecords
      /\ thread[t].copy.status # "NONE"
  BY <1>1, Served
<1>3. thread' = [thread EXCEPT ![t] = Gateway!Idle]
  BY DEF Gateway!EndRun, Gateway!EngineRaises, Gateway!ApplyStop
<1>4. Gateway!Idle \in Occupations
  BY DEF Gateway!Idle, Occupations, Gateway!NoRecord, Gateway!Record, RunRecords,
     GatewayStatuses
<1>5. ASSUME NEW record \in RunRecords, record.status \notin {"NONE", "RUNNING"},
             records' = [records EXCEPT ![r] = record]
      PROVE  WritesRecord(t, Gateway!Idle, r, record)
  BY <1>2, <1>3, <1>4, <1>5 DEF WritesRecord, ServedNow
<1>. HIDE DEF r
<1>6. CASE Gateway!EndRun(t)
  <2>. DEFINE record == Gateway!Record(Gateway!FinalStatus(thread[t].copy.status),
       thread[t].copy.steps, TRUE)
  <2>1. records' = [records EXCEPT ![r] = record]
    BY <1>6 DEF Gateway!EndRun, r
  <2>2. record \in RunRecords /\ record.status \notin {"NONE", "RUNNING"}
    BY <1>2 DEF Gateway!Record, RunRecords, GatewayStatuses, Gateway!FinalStatus
  <2>3. QED
    BY <1>1, <1>5, <2>1, <2>2 DEF r
<1>7. CASE Gateway!EngineRaises(t)
  <2>. DEFINE record == [thread[t].copy EXCEPT !.status = "FAILED"]
  <2>1. records' = [records EXCEPT ![r] = record]
    BY <1>7 DEF Gateway!EngineRaises, r
  <2>2. record \in RunRecords /\ record.status \notin {"NONE", "RUNNING"}
    BY <1>2 DEF RunRecords, GatewayStatuses
  <2>3. QED
    BY <1>1, <1>5, <2>1, <2>2 DEF r
<1>8. CASE Gateway!ApplyStop(t)
  <2>. DEFINE record == [thread[t].copy EXCEPT !.status = "BLOCKED"]
  <2>1. records' = [records EXCEPT ![r] = record]
    BY <1>8 DEF Gateway!ApplyStop, r
  <2>2. record \in RunRecords /\ record.status \notin {"NONE", "RUNNING"}
    BY <1>2 DEF RunRecords, GatewayStatuses
  <2>3. QED
    BY <1>1, <1>5, <2>1, <2>2 DEF r
<1>9. QED
  BY <1>6, <1>7, <1>8

\* A resume or a retry writes the record of the run that its thread goes on
\* with.
LEMMA RerunWrites ==
    ASSUME GatewayTyped, NEW t \in Threads, Gateway!ApplyRerun(t)
    PROVE  /\ thread[t].op \in {"resume", "retry"}
           /\ \E served, record : /\ WritesRecord(t, served, thread[t].run, record)
                                   /\ served.op = "rerun" /\ served.run = thread[t].run
<1>. DEFINE r == thread[t].run
            copy == [thread[t].copy EXCEPT !.status = "RUNNING"]
            served == [op |-> "rerun", run |-> r, copy |-> copy, over |-> copy.steps = Steps]
<1>1. /\ thread[t].op \in {"resume", "retry"}
      /\ records' = [records EXCEPT ![r] = copy]
      /\ thread' = [thread EXCEPT ![t] = served]
  BY DEF Gateway!ApplyRerun
<1>2. r \in Gateway!Created /\ r \in Gateway!RunIds /\ thread[t].copy \in RunRecords
  BY <1>1, Served
<1>3. copy \in RunRecords /\ copy.status # "NONE"
  BY <1>2 DEF RunRecords, GatewayStatuses
<1>4. served \in Occupations
  BY <1>2, <1>3 DEF Occupations, Gateway!RunIds
<1>5. served.op = "rerun" /\ served.run = r /\ served.copy = copy
  OBVIOUS
<1>. HIDE DEF served, copy, r
<1>6. Gateway!Created' = Gateway!Created
  BY <1>1, <1>2, <1>3, CreatedKept
<1>7. WritesRecord(t, served, r, copy)
  BY <1>1, <1>2, <1>3, <1>4, <1>5, <1>6 DEF WritesRecord, ServedNow
<1>8. QED
  BY <1>1, <1>5, <1>7 DEF r

\* An override request reads a record.
LEMMA ReadServes ==
    ASSUME GatewayTyped, NEW t \in Threads, NEW op \in {"stop", "resume", "retry"},
           NEW r \in Gateway!RunIds, Gateway!ReadForOverride(t, op, r)
    PROVE  \E served : ServedNow(t, served) /\ served.op = op /\ served.run = r
<1>. DEFINE served == [op |-> op, run |-> r, copy |-> records[r], over |-> FALSE]
<1>1. records' = records /\ thread' = [thread EXCEPT ![t] = served]
  BY DEF Gateway!ReadForOverride
<1>2. records[r] \in RunRecords /\ records[r].status # "NONE"
  BY DEF Gateway!ReadForOverride, Gateway!Accepts, Gateway!Resting, GatewayTyped
<1>3. r \in Gateway!Created'
  BY <1>1, <1>2 DEF Gateway!Created, Gateway!NoRecord, Gateway!Record
<1>4. served \in Occupations
  BY <1>2 DEF Occupations, Gateway!RunIds
<1>5. ServedNow(t, served)
  BY <1>1, <1>2, <1>3, <1>4 DEF ServedNow
<1>6. QED
  BY <1>5

\* Records are written and never deleted.
LEMMA CreatedStep ==
    ASSUME GatewayTyped, Gateway!GatewayAssumption, CreatedInOrder, [Gateway!Next]_Gateway!vars
    PROVE  \/ Gateway!Created' = Gateway!Created
           \/ \E t \in Threads, k \in Keys :
                 Gateway!Submit(t, k)
                 /\ Gateway!Created' = Gateway!Created \cup {Cardinality(Gateway!Created) + 1}
<1>1. ASSUME NEW t \in Threads, NEW k \in Keys, Gateway!Submit(t, k)
      PROVE  Gateway!Created' = Gateway!Created \cup {Cardinality(Gateway!Created) + 1}
  BY <1>1, SubmitWrites
<1>2. ASSUME NEW t, NEW served, NEW r, NEW record, WritesRecord(t, served, r, record)
      PROVE  Gateway!Created' = Gateway!Created
  BY <1>2, CreatedKept DEF WritesRecord
<1>3. ASSUME records' = records PROVE Gateway!Created' = Gateway!Created
  BY <1>3 DEF Gateway!Created
<1>4. ASSUME NEW t \in Threads,
             Gateway!Checkpoint(t) \/ Gateway!EndRun(t) \/ Gateway!EngineRaises(t)
             \/ Gateway!ApplyStop(t) \/ Gateway!ApplyRerun(t)
      PROVE  Gateway!Created' = Gateway!Created
  BY <1>2, <1>4, CheckpointWrites, EndWrites, RerunWrites
<1>5. CASE \/ \E t \in Threads, op \in {"stop", "resume", "retry"}, r \in Gateway!RunIds :
                  Gateway!ReadForOverride(t, op, r)
           \/ \E k \in Keys : Gateway!KeyExpires(k)
           \/ Gateway!Restart
           \/ UNCHANGED Gateway!vars
  BY <1>3, <1>5 DEF Gateway!ReadForOverride, Gateway!KeyExpires, Gateway!Restart, Gateway!vars
<1>6. QED
  BY <1>1, <1>4, <1>5 DEF Gateway!Next

\* Every step keeps the types.
LEMMA GatewayTypedStep == GatewayTyped /\ Gateway!GatewayAssumption /\ CreatedInOrder
    /\ [Gateway!Next]_Gateway!vars => GatewayTyped'
<1>. SUFFICES ASSUME GatewayTyped, Gateway!GatewayAssumption, CreatedInOrder,
                     [Gateway!Next]_Gateway!vars
              PROVE  GatewayTyped'
  OBVIOUS
<1>1. Gateway!Created \subseteq Gateway!Created'
  BY CreatedStep
<1>2. ASSUME NEW t \in Threads, NEW served, ServedNow(t, served) PROVE RecordsAndThreads'
  BY <1>1, <1>2, ThreadsTypedStep
<1>3. ASSUME NEW r \in Gateway!RunIds, NEW record \in RunRecords,
             records' = [records EXCEPT ![r] = record]
      PROVE  records' \in [Gateway!RunIds -> RunRecords]
  BY <1>3 DEF GatewayTyped
<1>. DEFINE Others == /\ records' \in [Gateway!RunIds -> RunRecords]
                      /\ remembered' \in [Keys -> Nat]
                      /\ metrics' \in [started : Nat, observed : Nat]
                      /\ restarts' \in Nat
<1>4. ASSUME RecordsAndThreads', Others PROVE GatewayTyped'
  BY <1>4 DEF RecordsAndThreads, GatewayTyped
<1>5. /\ remembered \in [Keys -> Nat] /\ metrics \in [started : Nat, observed : Nat]
      /\ restarts \in Nat /\ records \in [Gateway!RunIds -> RunRecords]
      /\ \A t \in Threads : thread[t].run \in Nat
  BY DEF GatewayTyped, Occupations
<1>6. /\ [metrics EXCEPT !.started = @ + 1] \in [started : Nat, observed : Nat]
      /\ [metrics EXCEPT !.observed = @ + 1] \in [started : Nat, observed : Nat]
  BY <1>5
<1>7. ASSUME NEW t \in Threads, NEW k \in Keys, Gateway!Submit(t, k) PROVE GatewayTyped'
  <2>1. RecordsAndThreads'
    BY <1>2, <1>7, SubmitWrites
  <2>2. records' \in [Gateway!RunIds -> RunRecords]
    BY <1>3, <1>7, SubmitWrites DEF Gateway!NewRecord, Gateway!Record, RunRecords,
       GatewayStatuses
  <2>3. QED
    BY <1>4, <1>5, <1>6, <1>7, <2>1, <2>2, GatewayCounts DEF Gateway!Submit
<1>8. ASSUME NEW t \in Threads, NEW served, NEW r, NEW record, WritesRecord(t, served, r, record)
      PROVE  RecordsAndThreads' /\ records' \in [Gateway!RunIds -> RunRecords]
  BY <1>2, <1>3, <1>8 DEF WritesRecord, Gateway!Created
<1>9. ASSUME NEW t \in Threads, Gateway!Checkpoint(t) PROVE GatewayTyped'
  <2>1. RecordsAndThreads' /\ records' \in [Gateway!RunIds -> RunRecords]
    BY <1>8, <1>9, CheckpointWrites
  <2>2. QED
    BY <1>4, <1>5, <1>9, <2>1 DEF Gateway!Checkpoint
<1>10. ASSUME NEW t \in Threads, Gateway!EndRun(t) \/ Gateway!EngineRaises(t)
              \/ Gateway!ApplyStop(t) PROVE GatewayTyped'
  <2>1. RecordsAndThreads' /\ records' \in [Gateway!RunIds -> RunRecords]
    BY <1>8, <1>10, EndWrites
  <2>2. remembered' \in [Keys -> Nat]
    BY <1>5, <1>10 DEF Gateway!EndRun, Gateway!EngineRaises, Gateway!ApplyStop,
       Gateway!Remember
  <2>3. metrics' \in [started : Nat, observed : Nat] /\ restarts' \in Nat
    BY <1>5, <1>6, <1>10 DEF Gateway!EndRun, Gateway!EngineRaises, Gateway!ApplyStop,
       Gateway!ObservedFailure
  <2>4. QED
    BY <1>4, <2>1, <2>2, <2>3
<1>11. ASSUME NEW t \in Threads, Gateway!ApplyRerun(t) PROVE GatewayTyped'
  <2>1. RecordsAndThreads' /\ records' \in [Gateway!RunIds -> RunRecords]
    BY <1>8, <1>11, RerunWrites
  <2>2. QED
    BY <1>4, <1>5, <1>6, <1>11, <2>1 DEF Gateway!ApplyRerun
<1>12. ASSUME NEW t \in Threads, NEW op \in {"stop", "resume", "retry"},
              NEW r \in Gateway!RunIds,
              Gateway!ReadForOverride(t, op, r)
       PROVE  GatewayTyped'
  <2>1. RecordsAndThreads'
    BY <1>2, <1>12, ReadServes
  <2>2. QED
    BY <1>4, <1>5, <1>12, <2>1 DEF Gateway!ReadForOverride
<1>13. ASSUME thread' = thread PROVE RecordsAndThreads'
  BY <1>1, <1>13 DEF GatewayTyped, RecordsAndThreads, Gateway!Free, AtWorkOnRun
<1>14. ASSUME NEW k \in Keys, Gateway!KeyExpires(k) PROVE GatewayTyped'
  <2>1. RecordsAndThreads'
    BY <1>13, <1>14 DEF Gateway!KeyExpires
  <2>2. QED
    BY <1>4, <1>5, <1>14, <2>1 DEF Gateway!KeyExpires
<1>15. CASE Gateway!Restart
  <2>1. RecordsAndThreads'
    BY <1>15 DEF Gateway!Restart, RecordsAndThreads, Gateway!Free, Gateway!Idle, Occupations,
       Gateway!NoRecord, Gateway!Record,
         RunRecords, GatewayStatuses
  <2>2. Others
    BY <1>5, <1>15 DEF Gateway!Restart
  <2>3. QED
    BY <1>4, <2>1, <2>2
<1>16. CASE UNCHANGED Gateway!vars
  BY <1>4, <1>5, <1>13, <1>16 DEF Gateway!vars
<1>17. QED
  BY <1>7, <1>9, <1>10, <1>11, <1>12, <1>14, <1>15, <1>16 DEF Gateway!Next

\* The gateway starts with no run and no key.
LEMMA GatewayInitTyped == Gateway!Init => GatewayTyped /\ KeyInv
<1>. SUFFICES ASSUME Gateway!Init PROVE GatewayTyped /\ KeyInv
  OBVIOUS
<1>1. Gateway!Created = {}
  BY DEF Gateway!Init, Gateway!Created
<1>2. GatewayTyped
  BY DEF Gateway!Init, GatewayTyped, Gateway!Free, Gateway!Idle, Occupations,
     Gateway!NoRecord, Gateway!Record, RunRecords, GatewayStatuses
<1>3. {} = 1 .. 0 /\ 0 \in Nat
  OBVIOUS
<1>4. CreatedInOrder
  BY <1>1, <1>3, Zenon DEF CreatedInOrder
<1>5. HaveKeys /\ AnsweredAreRemembered /\ PrecedesCreated /\ Gateway!DuplicatesOverlap
  BY <1>1 DEF Gateway!Init, HaveKeys, AnsweredAreRemembered, PrecedesCreated,
     Gateway!DuplicatesOverlap
<1>6. QED
  BY <1>2, <1>4, <1>5 DEF KeyInv

(* Keys *)

\* The numbering of the runs goes on.
LEMMA OrderStep ==
    GatewayTyped /\ Gateway!GatewayAssumption /\ CreatedInOrder
    /\ [Gateway!Next]_Gateway!vars => CreatedInOrder'
<1>. SUFFICES ASSUME GatewayTyped, Gateway!GatewayAssumption, CreatedInOrder,
                     [Gateway!Next]_Gateway!vars
              PROVE  CreatedInOrder'
  OBVIOUS
<1>1. \E n \in Nat : Gateway!Created' = 1 .. n
  BY CreatedStep, NextIsNew DEF CreatedInOrder
<1>2. QED
  BY <1>1 DEF CreatedInOrder

\* A submission finds no answered run of its key.
LEMMA KeySubmitted ==
    ASSUME GatewayTyped, KeyInv, NEW t \in Threads, NEW k \in Keys, Gateway!Submit(t, k)
    PROVE  (HaveKeys /\ AnsweredAreRemembered /\ PrecedesCreated /\ Gateway!DuplicatesOverlap)'
<1>. DEFINE r == Cardinality(Gateway!Created) + 1
<1>1. r \notin Gateway!Created /\ Gateway!Created' = Gateway!Created \cup {r}
  BY SubmitWrites DEF KeyInv
<1>2. /\ remembered[k] = 0 /\ remembered' = remembered /\ answered' = answered
      /\ keyOf' = [q \in DOMAIN keyOf \cup {r} |-> IF q = r THEN k ELSE keyOf[q]]
      /\ precedes' = precedes \cup (answered \X {r})
  BY GatewayCounts DEF Gateway!Submit
<1>. HIDE DEF r
<1>3. DOMAIN keyOf = Gateway!Created /\ \A q \in Gateway!Created : keyOf[q] \in Keys
  BY DEF KeyInv, HaveKeys
<1>4. /\ DOMAIN keyOf' = Gateway!Created' /\ keyOf'[r] = k
      /\ \A q \in Gateway!Created : keyOf'[q] = keyOf[q]
  BY <1>1, <1>2, <1>3
<1>5. HaveKeys'
  BY <1>1, <1>3, <1>4 DEF HaveKeys
<1>6. AnsweredAreRemembered'
  BY <1>1, <1>2, <1>4 DEF KeyInv, AnsweredAreRemembered
<1>7. PrecedesCreated'
  BY <1>1, <1>2 DEF KeyInv, PrecedesCreated, AnsweredAreRemembered
<1>8. \A q \in answered : q \in Gateway!Created /\ keyOf[q] # k
  BY <1>2 DEF KeyInv, AnsweredAreRemembered
<1>9. Gateway!DuplicatesOverlap'
  <2>. SUFFICES ASSUME NEW p \in precedes' PROVE keyOf'[p[1]] # keyOf'[p[2]]
    BY DEF Gateway!DuplicatesOverlap
  <2>1. CASE p \in precedes
    <3>1. p[1] \in Gateway!Created /\ p[2] \in Gateway!Created /\ keyOf[p[1]] # keyOf[p[2]]
      BY <2>1 DEF KeyInv, PrecedesCreated, Gateway!DuplicatesOverlap
    <3>2. QED
      BY <1>4, <3>1
  <2>2. CASE p \in answered \X {r}
    <3>1. p[1] \in answered /\ p[2] = r
      BY <2>2
    <3>2. QED
      BY <1>4, <1>8, <3>1
  <2>3. QED
    BY <1>2, <2>1, <2>2
<1>10. QED
  BY <1>5, <1>6, <1>7, <1>9

\* Every step keeps the keys of the runs.
LEMMA KeyStep == GatewayTyped /\ Gateway!GatewayAssumption /\ KeyInv
    /\ [Gateway!Next]_Gateway!vars => KeyInv'
<1>. SUFFICES ASSUME GatewayTyped, Gateway!GatewayAssumption, KeyInv,
                     [Gateway!Next]_Gateway!vars PROVE KeyInv'
  OBVIOUS
<1>. DEFINE Rest == HaveKeys /\ AnsweredAreRemembered /\ PrecedesCreated
     /\ Gateway!DuplicatesOverlap
<1>1. CreatedInOrder'
  BY OrderStep DEF KeyInv
<1>2. Rest' => KeyInv'
  BY <1>1 DEF KeyInv
<1>3. Rest
  BY DEF KeyInv
<1>4. ASSUME NEW t \in Threads, NEW k \in Keys, Gateway!Submit(t, k) PROVE Rest'
  BY <1>4, KeySubmitted
<1>5. CASE \A t \in Threads, k \in Keys : ~Gateway!Submit(t, k)
  <2>1. Gateway!Created' = Gateway!Created
    BY <1>5, CreatedStep DEF KeyInv
  <2>2. keyOf' = keyOf
    BY <1>5 DEF Gateway!Next, Gateway!Checkpoint, Gateway!EndRun, Gateway!EngineRaises,
       Gateway!ReadForOverride, Gateway!ApplyStop,
         Gateway!ApplyRerun, Gateway!KeyExpires, Gateway!Restart, Gateway!vars
  <2>3. HaveKeys'
    BY <1>3, <2>1, <2>2 DEF HaveKeys
  <2>4. precedes' \subseteq precedes
    BY <1>5 DEF Gateway!Next, Gateway!Checkpoint, Gateway!EndRun, Gateway!EngineRaises,
       Gateway!ReadForOverride, Gateway!ApplyStop,
         Gateway!ApplyRerun, Gateway!KeyExpires, Gateway!Restart, Gateway!vars
  <2>5. PrecedesCreated' /\ Gateway!DuplicatesOverlap'
    BY <1>3, <2>1, <2>2, <2>4 DEF PrecedesCreated, Gateway!DuplicatesOverlap
  <2>6. AnsweredAreRemembered'
    <3>1. ASSUME answered' = answered, remembered' = remembered
          PROVE  AnsweredAreRemembered'
      BY <1>3, <2>1, <2>2, <3>1 DEF AnsweredAreRemembered
    <3>2. ASSUME NEW t \in Threads, Gateway!EndRun(t) PROVE AnsweredAreRemembered'
      <4>1. CASE thread[t].op = "run"
        <5>. DEFINE r == thread[t].run
        <5>1. r \in Gateway!Created /\ r \in Gateway!RunIds /\ keyOf[r] \in Keys
          BY <1>3, <4>1, Served DEF HaveKeys
        <5>2. r # 0
          BY <5>1 DEF Gateway!RunIds
        <5>3. /\ remembered' = [remembered EXCEPT ![keyOf[r]] = r]
              /\ answered' = answered \cup {r}
          BY <3>2, <4>1 DEF Gateway!EndRun, Gateway!Serves, Gateway!Remember
        <5>. HIDE DEF r
        <5>4. \A k \in Keys : remembered'[k] = IF k = keyOf[r] THEN r ELSE remembered[k]
          BY <5>1, <5>3 DEF GatewayTyped
        <5>5. \A q \in answered' : q \in Gateway!Created /\ keyOf[q] \in Keys
          BY <1>3, <5>1, <5>3 DEF HaveKeys, AnsweredAreRemembered
        <5>6. \A q \in answered' : remembered'[keyOf[q]] # 0
          BY <1>3, <5>2, <5>3, <5>4, <5>5 DEF AnsweredAreRemembered
        <5>7. QED
          BY <2>1, <2>2, <5>5, <5>6 DEF AnsweredAreRemembered
      <4>2. CASE thread[t].op # "run"
        BY <3>1, <3>2, <4>2 DEF Gateway!EndRun, Gateway!Serves
      <4>3. QED
        BY <4>1, <4>2
    <3>3. ASSUME NEW k \in Keys, Gateway!KeyExpires(k) PROVE AnsweredAreRemembered'
      <4>1. /\ remembered' = [remembered EXCEPT ![k] = 0]
            /\ answered' = {r \in answered : keyOf[r] # k}
        BY <3>3 DEF Gateway!KeyExpires
      <4>2. \A r \in answered : r \in Gateway!Created /\ keyOf[r] \in Keys
            /\ remembered[keyOf[r]] # 0
        BY <1>3 DEF HaveKeys, AnsweredAreRemembered
      <4>3. \A r \in answered' : r \in Gateway!Created /\ remembered'[keyOf[r]] # 0
        BY <4>1, <4>2 DEF GatewayTyped
      <4>4. QED
        BY <2>1, <2>2, <4>3 DEF AnsweredAreRemembered
    <3>4. CASE Gateway!Restart
      BY <3>4 DEF Gateway!Restart, AnsweredAreRemembered
    <3>5. QED
      BY <1>5, <3>1, <3>2, <3>3, <3>4 DEF Gateway!Next, Gateway!Checkpoint,
         Gateway!EngineRaises,
         Gateway!ReadForOverride, Gateway!ApplyStop, Gateway!ApplyRerun, Gateway!vars
  <2>7. Rest'
    BY <2>3, <2>5, <2>6
  <2>8. QED
    BY <1>2, <2>7
<1>6. QED
  BY <1>2, <1>4, <1>5

(* Records and metrics *)

\* A thread that goes leaves a final status, and one that leaves RUNNING stays.
LEMMA AttendedKept ==
    ASSUME GatewayTyped, Gateway!RunningIsAttended, restarts' = restarts, NEW t \in Threads,
           NEW served, NEW record, WritesRecord(t, served, thread[t].run, record),
           record.status # "RUNNING" \/ served.run = thread[t].run
    PROVE  Gateway!RunningIsAttended'
<1>. SUFFICES ASSUME restarts = 0, NEW q \in Gateway!RunIds, records'[q].status = "RUNNING"
     PROVE  \E u \in Threads : thread'[u].run = q
  BY DEF Gateway!RunningIsAttended, Gateway!At
<1>1. /\ records' = [records EXCEPT ![thread[t].run] = record]
      /\ thread' = [thread EXCEPT ![t] = served]
  BY DEF WritesRecord, ServedNow
<1>2. CASE q = thread[t].run
  <2>1. records'[q] = record
    BY <1>1, <1>2 DEF GatewayTyped
  <2>2. thread'[t].run = q
    BY <1>1, <1>2, <2>1 DEF GatewayTyped
  <2>3. QED
    BY <2>2
<1>3. CASE q # thread[t].run
  <2>1. records'[q] = records[q]
    BY <1>1, <1>3 DEF GatewayTyped
  <2>2. PICK u \in Threads : thread[u].run = q
    BY <2>1 DEF Gateway!RunningIsAttended, Gateway!At
  <2>3. thread'[u] = thread[u]
    BY <1>1, <1>3, <2>2 DEF GatewayTyped
  <2>4. QED
    BY <2>2, <2>3
<1>4. QED
  BY <1>2, <1>3

\* A thread that was free attends nothing that it could leave.
LEMMA AttendedByNew ==
    ASSUME GatewayTyped, Gateway!RunningIsAttended, restarts' = restarts, NEW t \in Threads,
           Gateway!Free(t),
           NEW served, thread' = [thread EXCEPT ![t] = served],
           \A q \in Gateway!RunIds : records'[q] = records[q] \/ served.run = q
    PROVE  Gateway!RunningIsAttended'
<1>. SUFFICES ASSUME restarts = 0, NEW q \in Gateway!RunIds, records'[q].status = "RUNNING"
     PROVE  \E u \in Threads : thread'[u].run = q
  BY DEF Gateway!RunningIsAttended, Gateway!At
<1>1. CASE served.run = q
  BY <1>1 DEF GatewayTyped
<1>2. CASE served.run # q
  <2>1. PICK u \in Threads : thread[u].run = q
    BY <1>2 DEF Gateway!RunningIsAttended, Gateway!At
  <2>2. u # t
    BY <2>1 DEF Gateway!Free, Gateway!Idle, Gateway!RunIds
  <2>3. thread'[u] = thread[u]
    BY <2>2 DEF GatewayTyped
  <2>4. QED
    BY <2>1, <2>3
<1>3. QED
  BY <1>1, <1>2

\* Every step leaves a run recorded as RUNNING with a thread at work on it.
LEMMA AttendedStep ==
    ASSUME GatewayTyped, Gateway!GatewayAssumption, CreatedInOrder,
           Gateway!RunningIsAttended, [Gateway!Next]_Gateway!vars
    PROVE  Gateway!RunningIsAttended'
<1>1. ASSUME NEW t \in Threads, NEW k \in Keys, Gateway!Submit(t, k)
             PROVE Gateway!RunningIsAttended'
  <2>. DEFINE r == Cardinality(Gateway!Created) + 1
              served == [op |-> "run", run |-> r, copy |-> Gateway!NewRecord, over |-> FALSE]
  <2>1. /\ thread' = [thread EXCEPT ![t] = served]
        /\ records' = [records EXCEPT ![r] = Gateway!NewRecord]
        /\ restarts' = restarts /\ Gateway!Free(t)
    BY <1>1, GatewayCounts DEF Gateway!Submit
  <2>2. \A q \in Gateway!RunIds : records'[q] = records[q] \/ served.run = q
    BY <2>1 DEF GatewayTyped
  <2>. HIDE DEF served
  <2>3. QED
    BY <2>1, <2>2, AttendedByNew
<1>2. ASSUME NEW t \in Threads, Gateway!Checkpoint(t) PROVE Gateway!RunningIsAttended'
  BY <1>2, CheckpointWrites, AttendedKept DEF Gateway!Checkpoint
<1>3. ASSUME NEW t \in Threads, Gateway!EndRun(t) \/ Gateway!EngineRaises(t)
             \/ Gateway!ApplyStop(t)
      PROVE  Gateway!RunningIsAttended'
  <2>1. restarts' = restarts
    BY <1>3 DEF Gateway!EndRun, Gateway!EngineRaises, Gateway!ApplyStop
  <2>2. QED
    BY <1>3, <2>1, EndWrites, AttendedKept
<1>4. ASSUME NEW t \in Threads, Gateway!ApplyRerun(t) PROVE Gateway!RunningIsAttended'
  BY <1>4, RerunWrites, AttendedKept DEF Gateway!ApplyRerun
<1>5. ASSUME NEW t \in Threads, NEW op \in {"stop", "resume", "retry"},
             NEW r \in Gateway!RunIds,
             Gateway!ReadForOverride(t, op, r)
      PROVE  Gateway!RunningIsAttended'
  BY <1>5, AttendedByNew DEF Gateway!ReadForOverride
<1>6. CASE Gateway!Restart
  BY <1>6 DEF Gateway!Restart, GatewayTyped, Gateway!RunningIsAttended
<1>7. CASE (\E k \in Keys : Gateway!KeyExpires(k)) \/ UNCHANGED Gateway!vars
  BY <1>7 DEF Gateway!KeyExpires, Gateway!vars, Gateway!RunningIsAttended, Gateway!At
<1>8. QED
  BY <1>1, <1>2, <1>3, <1>4, <1>5, <1>6, <1>7 DEF Gateway!Next

\* The engines at work, when a thread turns to something else.
EnginesAtWork == {t \in Threads : Gateway!Rerunning(t)}

\* The number of engines at work follows the thread that changes.
LEMMA EnginesAreCounted ==
    ASSUME Gateway!GatewayAssumption, GatewayTyped, NEW t \in Threads, NEW served,
           thread' = [thread EXCEPT ![t] = served]
    PROVE  /\ Cardinality(EnginesAtWork) \in Nat
           /\ served.op \in Gateway!EngineOps /\ ~Gateway!Rerunning(t) =>
                Cardinality(EnginesAtWork') = Cardinality(EnginesAtWork) + 1
           /\ served.op \notin Gateway!EngineOps /\ Gateway!Rerunning(t) =>
                Cardinality(EnginesAtWork) = Cardinality(EnginesAtWork') + 1
           /\ (served.op \in Gateway!EngineOps <=> Gateway!Rerunning(t))
              => EnginesAtWork' = EnginesAtWork
<1>1. \A u \in Threads : thread'[u] = IF u = t THEN served ELSE thread[u]
  BY DEF GatewayTyped
<1>2. /\ served.op \in Gateway!EngineOps => EnginesAtWork' = EnginesAtWork \cup {t}
      /\ served.op \notin Gateway!EngineOps => EnginesAtWork' = EnginesAtWork \ {t}
  BY <1>1 DEF EnginesAtWork, Gateway!Rerunning
<1>3. IsFiniteSet(EnginesAtWork) /\ IsFiniteSet(EnginesAtWork')
  BY FS_Subset, GatewayIsFinite DEF Gateway!GatewayAssumption, EnginesAtWork
<1>4. t \in EnginesAtWork <=> Gateway!Rerunning(t)
  BY DEF EnginesAtWork
<1>5. Cardinality(EnginesAtWork) \in Nat /\ Cardinality(EnginesAtWork') \in Nat
  BY <1>3, FS_CardinalityType
<1>6. ASSUME served.op \in Gateway!EngineOps, ~Gateway!Rerunning(t)
      PROVE  Cardinality(EnginesAtWork') = Cardinality(EnginesAtWork) + 1
  BY <1>2, <1>3, <1>4, <1>6, FS_AddElement
<1>7. ASSUME served.op \notin Gateway!EngineOps, Gateway!Rerunning(t)
      PROVE  Cardinality(EnginesAtWork) = Cardinality(EnginesAtWork') + 1
  <2>1. Cardinality(EnginesAtWork') = Cardinality(EnginesAtWork) - 1
    BY <1>2, <1>3, <1>4, <1>7, FS_RemoveElement
  <2>2. QED
    BY <1>5, <2>1
<1>8. (served.op \in Gateway!EngineOps <=> Gateway!Rerunning(t))
      => EnginesAtWork' = EnginesAtWork
  BY <1>2, <1>4
<1>9. QED
  BY <1>5, <1>6, <1>7, <1>8

\* Every step keeps the count of starts equal to that of results and engines at
\* work.
LEMMA ObservedStep ==
    ASSUME Gateway!GatewayAssumption, GatewayTyped, Gateway!StartsAreObserved,
           [Gateway!Next]_Gateway!vars
    PROVE  Gateway!StartsAreObserved'
<1>1. /\ Cardinality(EnginesAtWork) \in Nat
      /\ metrics.started = metrics.observed + Cardinality(EnginesAtWork)
      /\ metrics.started \in Nat /\ metrics.observed \in Nat
  <2>1. IsFiniteSet(EnginesAtWork)
    BY FS_Subset, GatewayIsFinite DEF Gateway!GatewayAssumption, EnginesAtWork
  <2>2. QED
    BY <2>1, FS_CardinalityType, GatewayCounts DEF GatewayTyped, Gateway!StartsAreObserved,
       EnginesAtWork
<1>2. ASSUME metrics'.started = metrics'.observed + Cardinality(EnginesAtWork')
      PROVE  Gateway!StartsAreObserved'
  BY <1>2, GatewayCounts DEF Gateway!StartsAreObserved, EnginesAtWork
<1>3. ASSUME NEW t \in Threads, NEW served, thread' = [thread EXCEPT ![t] = served],
             served.op \in Gateway!EngineOps, ~Gateway!Rerunning(t),
             metrics' = [metrics EXCEPT !.started = @ + 1]
      PROVE  Gateway!StartsAreObserved'
  <2>1. Cardinality(EnginesAtWork') = Cardinality(EnginesAtWork) + 1
    BY <1>3, EnginesAreCounted
  <2>2. metrics'.started = metrics.started + 1 /\ metrics'.observed = metrics.observed
    BY <1>3 DEF GatewayTyped
  <2>3. QED
    BY <1>1, <1>2, <2>1, <2>2
<1>4. ASSUME NEW t \in Threads, thread' = [thread EXCEPT ![t] = Gateway!Idle],
             Gateway!Rerunning(t),
             metrics' = [metrics EXCEPT !.observed = @ + 1]
      PROVE  Gateway!StartsAreObserved'
  <2>1. Gateway!Idle.op \notin Gateway!EngineOps
    BY DEF Gateway!Idle, Gateway!EngineOps
  <2>2. Cardinality(EnginesAtWork) = Cardinality(EnginesAtWork') + 1
        /\ Cardinality(EnginesAtWork') \in Nat
    <3>1. IsFiniteSet(EnginesAtWork')
      BY FS_Subset, GatewayIsFinite DEF Gateway!GatewayAssumption, EnginesAtWork
    <3>2. QED
      BY <1>4, <2>1, <3>1, EnginesAreCounted, FS_CardinalityType
  <2>3. metrics'.started = metrics.started /\ metrics'.observed = metrics.observed + 1
    BY <1>4 DEF GatewayTyped
  <2>4. QED
    BY <1>1, <1>2, <2>2, <2>3
<1>5. ASSUME NEW t \in Threads, NEW served, thread' = [thread EXCEPT ![t] = served],
             served.op \in Gateway!EngineOps <=> Gateway!Rerunning(t), metrics' = metrics
      PROVE  Gateway!StartsAreObserved'
  <2>1. EnginesAtWork' = EnginesAtWork
    BY <1>5, EnginesAreCounted
  <2>2. QED
    BY <1>1, <1>2, <1>5, <2>1
<1>6. ASSUME NEW t \in Threads, NEW k \in Keys, Gateway!Submit(t, k)
             PROVE Gateway!StartsAreObserved'
  <2>. DEFINE served == [op |-> "run", run |-> Cardinality(Gateway!Created) + 1,
                          copy |-> Gateway!NewRecord, over |-> FALSE]
  <2>1. /\ thread' = [thread EXCEPT ![t] = served] /\ served.op \in Gateway!EngineOps
        /\ metrics' = [metrics EXCEPT !.started = @ + 1] /\ Gateway!Free(t)
    BY <1>6, GatewayCounts DEF Gateway!Submit, Gateway!EngineOps
  <2>. HIDE DEF served
  <2>2. ~Gateway!Rerunning(t)
    BY <2>1 DEF Gateway!Free, Gateway!Idle, Gateway!Rerunning, Gateway!EngineOps
  <2>3. QED
    BY <1>3, <2>1, <2>2
<1>7. ASSUME NEW t \in Threads, Gateway!Checkpoint(t) PROVE Gateway!StartsAreObserved'
  <2>1. PICK served : thread' = [thread EXCEPT ![t] = served] /\ served.op = thread[t].op
    BY <1>7, CheckpointWrites DEF WritesRecord, ServedNow
  <2>2. QED
    BY <1>5, <1>7, <2>1 DEF Gateway!Checkpoint, Gateway!Rerunning
<1>8. ASSUME NEW t \in Threads, Gateway!EndRun(t) \/ Gateway!EngineRaises(t)
             PROVE Gateway!StartsAreObserved'
  <2>1. thread' = [thread EXCEPT ![t] = Gateway!Idle] /\ Gateway!Rerunning(t)
    BY <1>8 DEF Gateway!EndRun, Gateway!EngineRaises, Gateway!Rerunning
  <2>2. metrics' = [metrics EXCEPT !.observed = @ + 1]
    BY <1>8 DEF Gateway!EndRun, Gateway!EngineRaises, Gateway!ObservedFailure
  <2>3. QED
    BY <1>4, <2>1, <2>2
<1>9. ASSUME NEW t \in Threads, Gateway!ApplyStop(t) PROVE Gateway!StartsAreObserved'
  BY <1>5, <1>9 DEF Gateway!ApplyStop, Gateway!Serves, Gateway!Idle, Gateway!Rerunning,
     Gateway!EngineOps
<1>10. ASSUME NEW t \in Threads, Gateway!ApplyRerun(t) PROVE Gateway!StartsAreObserved'
  <2>1. PICK served : thread' = [thread EXCEPT ![t] = served] /\ served.op = "rerun"
    BY <1>10, RerunWrites DEF WritesRecord, ServedNow
  <2>2. metrics' = [metrics EXCEPT !.started = @ + 1] /\ ~Gateway!Rerunning(t)
    BY <1>10 DEF Gateway!ApplyRerun, Gateway!Rerunning, Gateway!EngineOps
  <2>3. QED
    BY <1>3, <2>1, <2>2 DEF Gateway!EngineOps
<1>11. ASSUME NEW t \in Threads, NEW op \in {"stop", "resume", "retry"},
              NEW r \in Gateway!RunIds,
              Gateway!ReadForOverride(t, op, r)
       PROVE  Gateway!StartsAreObserved'
  <2>1. PICK served : thread' = [thread EXCEPT ![t] = served] /\ served.op = op
    BY <1>11, ReadServes DEF ServedNow
  <2>2. served.op \notin Gateway!EngineOps /\ ~Gateway!Rerunning(t) /\ metrics' = metrics
    BY <1>11, <2>1 DEF Gateway!ReadForOverride, Gateway!Free, Gateway!Idle,
       Gateway!Rerunning, Gateway!EngineOps
  <2>3. QED
    BY <1>5, <2>1, <2>2
<1>12. CASE Gateway!Restart
  <2>1. EnginesAtWork' = {}
    BY <1>12 DEF Gateway!Restart, EnginesAtWork, Gateway!Rerunning, Gateway!Idle,
       Gateway!EngineOps
  <2>2. metrics'.started = 0 /\ metrics'.observed = 0
    BY <1>12 DEF Gateway!Restart
  <2>3. QED
    BY <1>2, <2>1, <2>2, FS_EmptySet
<1>13. CASE (\E k \in Keys : Gateway!KeyExpires(k)) \/ UNCHANGED Gateway!vars
  BY <1>13, GatewayCounts DEF Gateway!KeyExpires, Gateway!vars, Gateway!StartsAreObserved,
     Gateway!Rerunning
<1>14. QED
  BY <1>6, <1>7, <1>8, <1>9, <1>10, <1>11, <1>12, <1>13 DEF Gateway!Next

\* What is known of the gateway.
GatewayInv == GatewayTyped /\ KeyInv /\ Gateway!RunningIsAttended /\ Gateway!StartsAreObserved

\* Nobody is served yet.
LEMMA GatewayInit == Gateway!Init => GatewayInv
<1>. SUFFICES ASSUME Gateway!Init PROVE Gateway!RunningIsAttended /\ Gateway!StartsAreObserved
  BY GatewayInitTyped DEF GatewayInv
<1>1. Gateway!RunningIsAttended
  BY DEF Gateway!Init, Gateway!RunningIsAttended, Gateway!NoRecord, Gateway!Record
<1>2. {t \in Threads : Gateway!Rerunning(t)} = {}
  BY DEF Gateway!Init, Gateway!Rerunning, Gateway!Idle, Gateway!EngineOps
<1>3. metrics.started = 0 /\ metrics.observed = 0
  BY DEF Gateway!Init
<1>4. Gateway!StartsAreObserved
  BY <1>2, <1>3, FS_EmptySet, GatewayCounts DEF Gateway!StartsAreObserved
<1>5. QED
  BY <1>1, <1>4

\* Every step of the gateway keeps what is known of it.
LEMMA GatewayStep == Gateway!GatewayAssumption /\ GatewayInv /\ [Gateway!Next]_Gateway!vars
    => GatewayInv'
<1>. SUFFICES ASSUME Gateway!GatewayAssumption, GatewayInv, [Gateway!Next]_Gateway!vars
                     PROVE GatewayInv'
  OBVIOUS
<1>1. GatewayTyped /\ KeyInv /\ CreatedInOrder /\ Gateway!RunningIsAttended
      /\ Gateway!StartsAreObserved
  BY DEF GatewayInv, KeyInv
<1>2. GatewayTyped' /\ KeyInv'
  BY <1>1, GatewayTypedStep, KeyStep
<1>3. Gateway!RunningIsAttended' /\ Gateway!StartsAreObserved'
  BY <1>1, AttendedStep, ObservedStep
<1>4. QED
  BY <1>2, <1>3 DEF GatewayInv

\* What is known of the gateway says that runs are attended and submissions accounted for.
LEMMA GatewayImplied == GatewayInv => Gateway!RunningIsAttended
    /\ Gateway!SubmissionsAreAccounted
  BY DEF GatewayInv, KeyInv, Gateway!SubmissionsAreAccounted

-----------------------------------------------------------------------------
(* The files of a repository, in the variables of the composition *)

\* What holds of 0 and goes on from each number to the next holds of all up to n.
LEMMA UpTo ==
    ASSUME NEW n \in Nat, NEW T, 0 \in T, \A k \in 0 .. n - 1 : k \in T => k + 1 \in T
    PROVE  \A k \in 0 .. n : k \in T
<1>. SUFFICES ASSUME NEW k \in 0 .. n, k \notin T PROVE FALSE
  OBVIOUS
<1>. DEFINE W == {m \in 0 .. n : m \notin T}  R == OpToRel(<, Nat)
<1>1. W \subseteq Nat /\ W # {}
  OBVIOUS
<1>2. IsWellFoundedOn(R, Nat)
  BY NatLessThanWellFounded
<1>3. \A x, y \in Nat : x < y => <<x, y>> \in R
  BY DEF OpToRel
<1>. HIDE DEF R
<1>4. PICK m \in W : \A y \in W : ~(<<y, m>> \in R)
  BY <1>1, <1>2, WFMin
<1>5. m # 0 /\ m - 1 \in 0 .. n - 1 /\ m - 1 \in Nat /\ m - 1 < m /\ m \in Nat
  BY <1>4
<1>6. m - 1 \notin W
  BY <1>3, <1>4, <1>5
<1>7. m - 1 \in T
  BY <1>5, <1>6
<1>. QED
  BY <1>4, <1>5, <1>7

\* Some places of a list have a first one.
LEMMA FirstOf ==
    ASSUME NEW n \in Nat, NEW S, S \subseteq 1 .. n, S # {}
    PROVE  \E x \in S : \A y \in S : x <= y
<1>. SUFFICES ASSUME \A x \in S : \E y \in S : ~(x <= y) PROVE FALSE
  OBVIOUS
<1>. DEFINE T == {k \in 0 .. n : \A y \in S : y > k}
<1>1. 0 \in T
  OBVIOUS
<1>2. ASSUME NEW k \in 0 .. n - 1, k \in T PROVE k + 1 \in T
  <2>1. \A y \in S : k + 1 <= y
    BY <1>2
  <2>2. k + 1 \notin S
    BY <2>1
  <2>3. \A y \in S : y > k + 1
    BY <2>1, <2>2
  <2>. QED
    BY <2>3
<1>. HIDE DEF T
<1>3. n \in T
  BY <1>1, <1>2, UpTo
<1>4. \A y \in S : y > n
  BY <1>3 DEF T
<1>5. PICK y \in S : y \in 1 .. n
  OBVIOUS
<1>. QED
  BY <1>4, <1>5

\* And a last one.
LEMMA LastOf ==
    ASSUME NEW n \in Nat, NEW S, S \subseteq 1 .. n, S # {}
    PROVE  \E x \in S : \A y \in S : y <= x
<1>. DEFINE T == {n + 1 - y : y \in S}
<1>1. ASSUME NEW y \in S PROVE y \in 1 .. n /\ n + 1 - y \in 1 .. n
  OBVIOUS
<1>2. T \subseteq 1 .. n /\ T # {}
  BY <1>1
<1>3. PICK z \in T : \A y \in T : z <= y
  BY <1>2, FirstOf
<1>4. PICK x \in S : z = n + 1 - x
  BY <1>3
<1>5. ASSUME NEW y \in S PROVE y <= x
  <2>1. n + 1 - y \in T
    OBVIOUS
  <2>. QED
    BY <1>1, <1>3, <1>4, <2>1
<1>. QED
  BY <1>4, <1>5

\* The greatest of some numbers up to one, which is among them.
LEMMA TheGreatest ==
    ASSUME NEW k \in Nat, NEW S, S \subseteq 1 .. k, k \in S
    PROVE  Store!Max(S) = k
<1>1. \E x \in S : \A y \in S : x >= y
  OBVIOUS
<1>2. Store!Max(S) \in S /\ \A y \in S : Store!Max(S) >= y
  BY <1>1, Zenon DEF Store!Max
<1>3. Store!Max(S) \in 1 .. k /\ Store!Max(S) >= k
  BY <1>2
<1>. QED
  BY <1>3

\* Some numbers up to one have a greatest.
LEMMA TheMaximum ==
    ASSUME NEW n \in Nat, NEW S, S \subseteq 1 .. n, S # {}
    PROVE  Store!Max(S) \in S /\ \A y \in S : Store!Max(S) >= y
<1>1. PICK x \in S : \A y \in S : y <= x
  BY LastOf
<1>2. \E x_1 \in S : \A y \in S : x_1 >= y
  BY <1>1
<1>. QED
  BY <1>2, Zenon DEF Store!Max

\* A value for each set of places, taken from that of the set without its last place.
Folds(n, base, onto, f) ==
    f = [s \in SUBSET (1 .. n) |->
            IF s = {} THEN base ELSE onto[Store!Max(s)][f[s \ {Store!Max(s)}]]]
LEMMA FoldsExist ==
    ASSUME NEW V, NEW base \in V, NEW N \in Nat, NEW onto \in [1 .. N -> [V -> V]]
    PROVE  \E f \in [SUBSET (1 .. N) -> V] : Folds(N, base, onto, f)
<1>. DEFINE T == {n \in 0 .. N : \E f \in [SUBSET (1 .. n) -> V] : Folds(n, base, onto, f)}
<1>1. 0 \in T
  <2>. DEFINE f == [s \in SUBSET (1 .. 0) |-> base]
  <2>1. SUBSET (1 .. 0) = {{}}
    OBVIOUS
  <2>2. f \in [SUBSET (1 .. 0) -> V]
    OBVIOUS
  <2>3. Folds(0, base, onto, f)
    BY <2>1 DEF Folds
  <2>. QED
    BY <2>2, <2>3
<1>2. ASSUME NEW k \in 0 .. N - 1, k \in T PROVE k + 1 \in T
  <2>1. PICK f \in [SUBSET (1 .. k) -> V] : Folds(k, base, onto, f)
    BY <1>2
  <2>. DEFINE g == [s \in SUBSET (1 .. k + 1) |->
                      IF k + 1 \in s THEN onto[k + 1][f[s \ {k + 1}]] ELSE f[s]]
  <2>2. \A s \in SUBSET (1 .. k + 1) : s \ {k + 1} \in SUBSET (1 .. k)
    OBVIOUS
  <2>3. \A s \in SUBSET (1 .. k + 1) : k + 1 \notin s => s \in SUBSET (1 .. k)
    BY <2>2
  <2>4. g \in [SUBSET (1 .. k + 1) -> V]
    <3>1. onto[k + 1] \in [V -> V]
      OBVIOUS
    <3>. QED
      BY <2>2, <2>3, <3>1
  <2>5. ASSUME NEW s \in SUBSET (1 .. k + 1)
        PROVE  g[s] = IF s = {} THEN base ELSE onto[Store!Max(s)][g[s \ {Store!Max(s)}]]
    <3>1. CASE k + 1 \in s
      <4>1. Store!Max(s) = k + 1
        BY <3>1, k + 1 \in Nat, TheGreatest
      <4>2. g[s \ {k + 1}] = f[s \ {k + 1}]
        BY <2>2
      <4>. QED
        BY <3>1, <4>1, <4>2
    <3>2. CASE k + 1 \notin s
      <4>1. s \in SUBSET (1 .. k) /\ g[s] = f[s]
        BY <2>3, <3>2
      <4>2. f[s] = IF s = {} THEN base ELSE onto[Store!Max(s)][f[s \ {Store!Max(s)}]]
        BY <2>1, <4>1 DEF Folds
      <4>3. s \ {Store!Max(s)} \in SUBSET (1 .. k) /\ k + 1 \notin s \ {Store!Max(s)}
            /\ s \ {Store!Max(s)} \in SUBSET (1 .. k + 1)
        BY <3>2, <4>1
      <4>4. g[s \ {Store!Max(s)}] = f[s \ {Store!Max(s)}]
        BY <4>3
      <4>. QED
        BY <4>1, <4>2, <4>4
    <3>. QED
      BY <3>1, <3>2
  <2>6. Folds(k + 1, base, onto, g)
    <3>. HIDE DEF g
    <3>. QED
      BY <2>4, <2>5 DEF Folds
  <2>. HIDE DEF g
  <2>. QED
    BY <2>4, <2>6
<1>. HIDE DEF T
<1>3. \A k \in 0 .. N - 1 : k \in T => k + 1 \in T
  BY <1>2
<1>4. \A k \in 0 .. N : k \in T
  BY <1>1, <1>3, UpTo
<1>5. N \in T
  BY <1>4
<1>. QED
  BY <1>5 DEF T

\* The first places are those but the last, and it.
LEMMA FirstPlaces ==
    ASSUME NEW N \in Nat, NEW k \in 1 .. N
    PROVE  /\ 1 .. k \in SUBSET (1 .. N) /\ 1 .. k # {} /\ Store!Max(1 .. k) = k
           /\ (1 .. k) \ {k} = 1 .. k - 1
<1>1. 1 .. k \in SUBSET (1 .. N) /\ k \in 1 .. k
  OBVIOUS
<1>2. Store!Max(1 .. k) = k
  BY <1>1, k \in Nat, TheGreatest
<1>. QED
  BY <1>1, <1>2

StoreItems == [run : Runs, version : Nat, size : 1 .. PartSize]
FileParts == Seq(Seq(StoreItems)) \ {<<>>}

\* A list has no record of a run, or its first one is of a version at least.
Lacks(items, r) == \A i \in 1 .. Len(items) : items[i].run # r
IsFirst(items, i, r, v) ==
    /\ items[i].run = r /\ items[i].version >= v
    /\ \A j \in 1 .. i - 1 : items[j].run # r
Begins(items, r, v) == \E i \in 1 .. Len(items) : IsFirst(items, i, r, v)

\* The same of the parts of a file.
AllLack(parts, r) == \A m \in 1 .. Len(parts) : Lacks(parts[m], r)
Holds(parts, r, v) ==
    \E m \in 1 .. Len(parts) :
        Begins(parts[m], r, v) /\ \A l \in 1 .. m - 1 : Lacks(parts[l], r)

\* What is found in a list with another behind it.
LEMMA FoundInBoth ==
    ASSUME NEW s \in Seq(StoreItems), NEW t \in Seq(StoreItems), NEW r, NEW v \in Nat
    PROVE  /\ Lacks(s \o t, r) <=> Lacks(s, r) /\ Lacks(t, r)
           /\ Begins(s \o t, r, v) <=> Begins(s, r, v) \/ (Lacks(s, r) /\ Begins(t, r, v))
<1>. DEFINE u == s \o t
<1>1. /\ Len(s) \in Nat /\ Len(t) \in Nat /\ Len(u) = Len(s) + Len(t)
      /\ \A i \in 1 .. Len(s) : u[i] = s[i]
      /\ \A i \in 1 .. Len(t) : u[Len(s) + i] = t[i]
  OBVIOUS
<1>. HIDE DEF u
<1>2. ASSUME NEW i \in 1 .. Len(u), i > Len(s) PROVE i - Len(s) \in 1 .. Len(t)
  BY <1>1, <1>2
<1>3. Lacks(u, r) => Lacks(s, r) /\ Lacks(t, r)
  <2>1. ASSUME NEW i \in 1 .. Len(t), Lacks(u, r) PROVE t[i].run # r
    <3>1. Len(s) + i \in 1 .. Len(u)
      BY <1>1
    <3>. QED
      BY <1>1, <2>1, <3>1 DEF Lacks
  <2>2. ASSUME NEW i \in 1 .. Len(s), Lacks(u, r) PROVE s[i].run # r
    <3>1. i \in 1 .. Len(u)
      BY <1>1
    <3>. QED
      BY <1>1, <2>2, <3>1 DEF Lacks
  <2>. QED
    BY <2>1, <2>2 DEF Lacks
<1>4. ASSUME Lacks(s, r), Lacks(t, r) PROVE Lacks(u, r)
  <2>1. ASSUME NEW i \in 1 .. Len(u) PROVE u[i].run # r
    <3>1. CASE i <= Len(s)
      BY <1>1, <1>4, <3>1 DEF Lacks
    <3>2. CASE i > Len(s)
      <4>1. i - Len(s) \in 1 .. Len(t) /\ Len(s) + (i - Len(s)) = i
        BY <1>1, <1>2, <3>2
      <4>. QED
        BY <1>1, <1>4, <4>1 DEF Lacks
    <3>. QED
      BY <1>1, <3>1, <3>2
  <2>. QED
    BY <2>1 DEF Lacks
<1>5. ASSUME Begins(s, r, v) PROVE Begins(u, r, v)
  <2>1. PICK i \in 1 .. Len(s) : IsFirst(s, i, r, v)
    BY <1>5 DEF Begins
  <2>2. i \in 1 .. Len(u) /\ \A j \in 1 .. i : u[j] = s[j]
    BY <1>1
  <2>. QED
    BY <2>1, <2>2 DEF Begins, IsFirst
<1>6. ASSUME Lacks(s, r), Begins(t, r, v) PROVE Begins(u, r, v)
  <2>1. PICK i \in 1 .. Len(t) : IsFirst(t, i, r, v)
    BY <1>6 DEF Begins
  <2>2. Len(s) + i \in 1 .. Len(u) /\ u[Len(s) + i] = t[i]
    BY <1>1
  <2>3. ASSUME NEW j \in 1 .. Len(s) + i - 1 PROVE u[j].run # r
    <3>1. CASE j <= Len(s)
      BY <1>1, <1>6, <3>1 DEF Lacks
    <3>2. CASE j > Len(s)
      <4>1. Len(s) \in Nat /\ Len(t) \in Nat
        BY <1>1
      <4>2. j - Len(s) \in 1 .. i - 1 /\ Len(s) + (j - Len(s)) = j
        BY <3>2, <4>1
      <4>3. j - Len(s) \in 1 .. Len(t)
        BY <4>1, <4>2
      <4>. QED
        BY <1>1, <2>1, <4>2, <4>3 DEF IsFirst
    <3>. QED
      BY <1>1, <3>1, <3>2
  <2>. QED
    BY <2>1, <2>2, <2>3 DEF Begins, IsFirst
<1>7. ASSUME Begins(u, r, v) PROVE Begins(s, r, v) \/ (Lacks(s, r) /\ Begins(t, r, v))
  <2>1. PICK i \in 1 .. Len(u) : IsFirst(u, i, r, v)
    BY <1>7 DEF Begins
  <2>2. CASE i <= Len(s)
    <3>1. i \in 1 .. Len(s) /\ \A j \in 1 .. i : u[j] = s[j]
      BY <1>1, <2>2
    <3>. QED
      BY <2>1, <3>1 DEF Begins, IsFirst
  <2>3. CASE i > Len(s)
    <3>1. i - Len(s) \in 1 .. Len(t) /\ t[i - Len(s)] = u[i]
      <4>1. i - Len(s) \in 1 .. Len(t) /\ Len(s) + (i - Len(s)) = i
        BY <1>1, <1>2, <2>3
      <4>. QED
        BY <1>1, <4>1
    <3>2. ASSUME NEW j \in 1 .. (i - Len(s)) - 1 PROVE t[j].run # r
      <4>1. Len(s) + j \in 1 .. i - 1 /\ j \in 1 .. Len(t)
        BY <1>1, <3>1
      <4>. QED
        BY <1>1, <2>1, <4>1 DEF IsFirst
    <3>3. ASSUME NEW j \in 1 .. Len(s) PROVE s[j].run # r
      <4>1. j \in 1 .. i - 1
        BY <1>1, <2>3
      <4>. QED
        BY <1>1, <2>1, <4>1 DEF IsFirst
    <3>. QED
      BY <2>1, <3>1, <3>2, <3>3 DEF Begins, IsFirst, Lacks
  <2>. QED
    BY <1>1, <2>2, <2>3
<1>. QED
  BY <1>3, <1>4, <1>5, <1>6, <1>7 DEF u

\* And with one record behind it.
LEMMA FoundWithOneMore ==
    ASSUME NEW s \in Seq(StoreItems), NEW item \in StoreItems, NEW r, NEW v \in Nat
    PROVE  /\ Lacks(Append(s, item), r) <=> Lacks(s, r) /\ item.run # r
           /\ Begins(Append(s, item), r, v)
              <=> Begins(s, r, v) \/ (Lacks(s, r) /\ item.run = r /\ item.version >= v)
<1>1. <<item>> \in Seq(StoreItems) /\ Len(<<item>>) = 1 /\ <<item>>[1] = item
  OBVIOUS
<1>2. Append(s, item) = s \o <<item>>
  <2>. DEFINE a == Append(s, item)  b == s \o <<item>>
  <2>1. /\ a \in Seq(StoreItems) /\ b \in Seq(StoreItems) /\ Len(a) = Len(s) + 1
           /\ Len(b) = Len(s) + 1
        /\ \A i \in 1 .. Len(s) + 1 : a[i] = b[i]
    BY <1>1
  <2>. HIDE DEF a, b
  <2>2. a = b
    BY <2>1, SeqEqual
  <2>. QED
    BY <2>2 DEF a, b
<1>3. Lacks(<<item>>, r) <=> item.run # r
  BY <1>1 DEF Lacks
<1>4. Begins(<<item>>, r, v) <=> item.run = r /\ item.version >= v
  BY <1>1 DEF Begins, IsFirst
<1>5. /\ Lacks(s \o <<item>>, r) <=> Lacks(s, r) /\ Lacks(<<item>>, r)
      /\ Begins(s \o <<item>>, r, v)
         <=> Begins(s, r, v) \/ (Lacks(s, r) /\ Begins(<<item>>, r, v))
  BY <1>1, FoundInBoth
<1>. QED
  BY <1>2, <1>3, <1>4, <1>5

\* The parts as one record more is put into them.
Packed(parts, item) ==
    IF Store!Last(parts) # << >> /\ Store!Size(Store!Last(parts)) + item.size > PartSize
    THEN Append(parts, <<item>>)
    ELSE Store!Front(parts) \o <<Append(Store!Last(parts), item)>>

\* A record that is put into the parts stands last, behind the others.
LEMMA PackedLast ==
    ASSUME NEW parts \in FileParts, NEW item \in StoreItems
    PROVE  /\ Packed(parts, item) \in FileParts
           /\ \/ Packed(parts, item) = Append(parts, <<item>>)
              \/ Packed(parts, item) =
                    [parts EXCEPT ![Len(parts)] = Append(parts[Len(parts)], item)]
<1>1. parts \in Seq(Seq(StoreItems)) /\ Len(parts) \in Nat \ {0}
      /\ parts[Len(parts)] \in Seq(StoreItems)
  BY DEF FileParts
<1>2. CASE Packed(parts, item) = Append(parts, <<item>>)
  <2>1. <<item>> \in Seq(StoreItems)
    OBVIOUS
  <2>. QED
    BY <1>1, <1>2, <2>1 DEF FileParts
<1>3. CASE Packed(parts, item) # Append(parts, <<item>>)
  <2>. DEFINE tail == Append(Store!Last(parts), item)
  <2>1. tail \in Seq(StoreItems) /\ Store!Last(parts) = parts[Len(parts)]
    BY <1>1 DEF Store!Last
  <2>2. Packed(parts, item) = Store!Front(parts) \o <<tail>>
    BY <1>3 DEF Packed
  <2>. HIDE DEF tail
  <2>3. /\ Store!Front(parts) \in Seq(Seq(StoreItems))
           /\ Len(Store!Front(parts)) = Len(parts) - 1
        /\ \A i \in 1 .. Len(parts) - 1 : Store!Front(parts)[i] = parts[i]
    <3>1. Len(parts) - 1 \in Nat
      BY <1>1
    <3>2. /\ SubSeq(parts, 1, Len(parts) - 1) \in Seq(Seq(StoreItems))
          /\ Len(SubSeq(parts, 1, Len(parts) - 1)) = Len(parts) - 1
      <4>1. \A i \in 1 .. Len(parts) - 1 : parts[i] \in Seq(StoreItems)
        BY <1>1
      <4>2. Len(parts) - 1 \in Int /\ 1 \in Int
        BY <3>1
      <4>3. /\ SubSeq(parts, 1, Len(parts) - 1) \in Seq(Seq(StoreItems))
            /\ Len(SubSeq(parts, 1, Len(parts) - 1))
                  = IF 1 <= Len(parts) - 1 THEN Len(parts) - 1 - 1 + 1 ELSE 0
        BY <4>1, <4>2, SubSeqProperties
      <4>. DEFINE n == Len(parts)  front == SubSeq(parts, 1, n - 1)
      <4>4. n \in Nat \ {0} /\ Len(front) = IF 1 <= n - 1 THEN n - 1 - 1 + 1 ELSE 0
        BY <1>1, <4>3
      <4>. HIDE DEF n, front
      <4>5. Len(front) = n - 1
        BY <4>4
      <4>. QED
        BY <4>3, <4>5 DEF n, front
    <3>3. ASSUME NEW i \in 1 .. Len(parts) - 1
          PROVE  SubSeq(parts, 1, Len(parts) - 1)[i] = parts[i]
      BY <1>1, <3>1
    <3>. QED
      BY <3>2, <3>3 DEF Store!Front
  <2>4. <<tail>> \in Seq(Seq(StoreItems)) /\ Len(<<tail>>) = 1 /\ <<tail>>[1] = tail
    BY <2>1
  <2>. DEFINE joined == Store!Front(parts) \o <<tail>>
              put == [parts EXCEPT ![Len(parts)] = tail]
  <2>5. /\ joined \in Seq(Seq(StoreItems)) /\ Len(joined) = Len(parts)
        /\ \A i \in 1 .. Len(parts) : joined[i] = IF i = Len(parts) THEN tail ELSE parts[i]
    BY <1>1, <2>3, <2>4
  <2>6. /\ put \in Seq(Seq(StoreItems)) /\ Len(put) = Len(parts)
        /\ \A i \in 1 .. Len(parts) : put[i] = IF i = Len(parts) THEN tail ELSE parts[i]
    BY <1>1, <2>1
  <2>7. joined = put
    <3>. HIDE DEF joined, put
    <3>. QED
      BY <2>5, <2>6, SeqEqual
  <2>8. joined # <<>>
    BY <1>1, <2>5
  <2>. QED
    BY <2>1, <2>2, <2>5, <2>7, <2>8 DEF FileParts, tail
<1>. QED
  BY <1>2, <1>3

\* Split puts one record after the other into the parts.
LEMMA SplitInTurn ==
    ASSUME NEW items \in Seq(StoreItems)
    PROVE  \E parts : /\ parts[0] = << << >> >>
                      /\ \A k \in 1 .. Len(items) : parts[k] = Packed(parts[k - 1], items[k])
                      /\ Store!Split(items) = parts[Len(items)]
<1>. DEFINE N == Len(items)
            onto == [i \in 1 .. N |-> [v \in FileParts |-> Packed(v, items[i])]]
            E(f) == [s \in SUBSET (1 .. N) |->
                        IF s = {} THEN << << >> >> ELSE Packed(f[s \ {Store!Max(s)}],
                        items[Store!Max(s)])]
            iter == CHOOSE f : f = E(f)
<1>1. N \in Nat /\ DOMAIN items = 1 .. N /\ \A i \in 1 .. N : items[i] \in StoreItems
  OBVIOUS
<1>2. << << >> >> \in FileParts
  <2>1. << << >> >> \in Seq(Seq(StoreItems)) /\ Len(<< << >> >>) = 1
    OBVIOUS
  <2>. QED
    BY <2>1 DEF FileParts
<1>3. onto \in [1 .. N -> [FileParts -> FileParts]]
  BY <1>1, PackedLast
<1>4. PICK f \in [SUBSET (1 .. N) -> FileParts] : Folds(N, << << >> >>, onto, f)
  <2>. HIDE DEF onto, N
  <2>. QED
    BY <1>1, <1>2, <1>3, FoldsExist
<1>5. f = E(f)
  <2>1. ASSUME NEW s \in SUBSET (1 .. N), s # {}
        PROVE  onto[Store!Max(s)][f[s \ {Store!Max(s)}]] = Packed(f[s \ {Store!Max(s)}],
               items[Store!Max(s)])
    <3>1. Store!Max(s) \in 1 .. N
      BY <1>1, <2>1, TheMaximum
    <3>2. f[s \ {Store!Max(s)}] \in FileParts
      BY <1>4
    <3>. QED
      BY <3>1, <3>2
  <2>2. f = [s \in SUBSET (1 .. N) |->
                IF s = {} THEN << << >> >> ELSE onto[Store!Max(s)][f[s \ {Store!Max(s)}]]]
    BY <1>4 DEF Folds
  <2>. HIDE DEF onto, N
  <2>. QED
    BY <2>1, <2>2
<1>6. iter = E(iter)
  <2>. HIDE DEF E
  <2>. QED
    BY <1>5
<1>7. Store!Split(items) = iter[1 .. N]
  BY <1>1 DEF Store!Split, Store!FoldLeft, Store!MapThenFoldSet, Packed
<1>8. /\ iter[1 .. 0] = << << >> >>
      /\ \A k \in 1 .. N : iter[1 .. k] = Packed(iter[1 .. k - 1], items[k])
  <2>. HIDE DEF iter, N
  <2>1. 1 .. 0 = {} /\ {} \in SUBSET (1 .. N)
    OBVIOUS
  <2>2. ASSUME NEW k \in 1 .. N PROVE iter[1 .. k] = Packed(iter[1 .. k - 1], items[k])
    <3>1. /\ 1 .. k \in SUBSET (1 .. N) /\ 1 .. k # {} /\ Store!Max(1 .. k) = k
          /\ (1 .. k) \ {k} = 1 .. k - 1
      BY <1>1, FirstPlaces
    <3>2. iter[1 .. k] = Packed(iter[(1 .. k) \ {Store!Max(1 .. k)}], items[Store!Max(1 .. k)])
      BY <1>6, <3>1
    <3>. QED
      BY <3>1, <3>2
  <2>. QED
    BY <1>6, <2>1, <2>2
<1>. DEFINE parts == [k \in 0 .. N |-> iter[1 .. k]]
<1>. HIDE DEF iter
<1>9. /\ parts[0] = << << >> >> /\ Store!Split(items) = parts[N]
      /\ \A k \in 1 .. N : parts[k] = Packed(parts[k - 1], items[k])
  BY <1>1, <1>7, <1>8
<1>. QED
  BY <1>9

\* A record put into the parts is found behind the others.
LEMMA PackedKeeps ==
    ASSUME NEW parts \in FileParts, NEW item \in StoreItems, NEW r, NEW v \in Nat
    PROVE  /\ Holds(parts, r, v) => Holds(Packed(parts, item), r, v)
           /\ AllLack(parts, r) /\ item.run = r /\ item.version >= v
              => Holds(Packed(parts, item), r, v)
           /\ AllLack(parts, r) /\ item.run # r => AllLack(Packed(parts, item), r)
<1>. DEFINE p == Packed(parts, item)  N == Len(parts)
<1>1. parts \in Seq(Seq(StoreItems)) /\ N \in Nat \ {0} /\ parts[N] \in Seq(StoreItems)
  BY DEF FileParts
<1>2. \/ p = Append(parts, <<item>>)
      \/ p = [parts EXCEPT ![N] = Append(parts[N], item)]
  BY PackedLast
<1>. HIDE DEF p
<1>3. CASE p = Append(parts, <<item>>)
  <2>1. /\ Len(p) = N + 1 /\ p[N + 1] = <<item>> /\ \A m \in 1 .. N : p[m] = parts[m]
    BY <1>1, <1>3
  <2>2. Lacks(<<item>>, r) <=> item.run # r
    BY DEF Lacks
  <2>3. item.run = r /\ item.version >= v => Begins(<<item>>, r, v)
    BY DEF Begins, IsFirst
  <2>. HIDE DEF N
  <2>4. Holds(parts, r, v) => Holds(p, r, v)
    <3>1. ASSUME NEW m \in 1 .. N PROVE m \in 1 .. Len(p) /\ \A l \in 1 .. m : p[l] = parts[l]
      BY <1>1, <2>1
    <3>2. ASSUME NEW m \in 1 .. N, Begins(parts[m], r, v),
                 \A l \in 1 .. m - 1 : Lacks(parts[l], r)
          PROVE  Holds(p, r, v)
      <4>1. /\ m \in 1 .. Len(p) /\ p[m] = parts[m]
            /\ \A l \in 1 .. m - 1 : p[l] = parts[l]
        BY <1>1, <3>1
      <4>. QED
        BY <3>2, <4>1 DEF Holds
    <3>. QED
      BY <3>2 DEF Holds, N
  <2>5. AllLack(parts, r) /\ item.run = r /\ item.version >= v => Holds(p, r, v)
    <3>1. N + 1 \in 1 .. Len(p) /\ \A l \in 1 .. (N + 1) - 1 : l \in 1 .. N
      BY <1>1, <2>1
    <3>. QED
      BY <2>1, <2>3, <3>1 DEF Holds, AllLack, N
  <2>6. AllLack(parts, r) /\ item.run # r => AllLack(p, r)
    <3>1. \A l \in 1 .. Len(p) : l \in 1 .. N \/ l = N + 1
      BY <1>1, <2>1
    <3>. QED
      BY <2>1, <2>2, <3>1 DEF AllLack, N
  <2>. QED
    BY <2>4, <2>5, <2>6 DEF p
<1>4. CASE p = [parts EXCEPT ![N] = Append(parts[N], item)]
  <2>. DEFINE tail == Append(parts[N], item)
  <2>1. /\ Len(p) = N /\ p[N] = tail /\ \A m \in 1 .. N - 1 : p[m] = parts[m]
    BY <1>1, <1>4
  <2>2. /\ Lacks(tail, r) <=> Lacks(parts[N], r) /\ item.run # r
        /\ Begins(tail, r, v) <=>
              Begins(parts[N], r, v) \/ (Lacks(parts[N], r) /\ item.run = r
              /\ item.version >= v)
    BY <1>1, FoundWithOneMore
  <2>. HIDE DEF tail
  <2>3. \A m \in 1 .. N : m = N \/ m \in 1 .. N - 1
    BY <1>1
  <2>4. ASSUME Holds(parts, r, v) PROVE Holds(p, r, v)
    <3>1. PICK m \in 1 .. N : /\ Begins(parts[m], r, v)
                              /\ \A l \in 1 .. m - 1 : Lacks(parts[l], r)
      BY <2>4 DEF Holds
    <3>2. \A l \in 1 .. m - 1 : l \in 1 .. N - 1
      BY <1>1
    <3>3. Begins(p[m], r, v)
      BY <2>1, <2>2, <2>3, <3>1
    <3>4. \A l \in 1 .. m - 1 : Lacks(p[l], r)
      BY <2>1, <3>1, <3>2
    <3>. QED
      BY <2>1, <3>3, <3>4 DEF Holds
  <2>5. ASSUME AllLack(parts, r), item.run = r, item.version >= v PROVE Holds(p, r, v)
    <3>1. \A l \in 1 .. N : Lacks(parts[l], r)
      BY <2>5 DEF AllLack
    <3>2. N \in 1 .. N /\ \A l \in 1 .. N - 1 : l \in 1 .. N
      BY <1>1
    <3>3. Begins(p[N], r, v)
      BY <2>1, <2>2, <2>5, <3>1, <3>2
    <3>4. \A l \in 1 .. N - 1 : Lacks(p[l], r)
      BY <2>1, <3>1, <3>2
    <3>. QED
      BY <2>1, <3>2, <3>3, <3>4 DEF Holds
  <2>6. ASSUME AllLack(parts, r), item.run # r PROVE AllLack(p, r)
    <3>1. ASSUME NEW m \in 1 .. Len(p) PROVE Lacks(p[m], r)
      BY <1>1, <2>1, <2>2, <2>3, <2>6 DEF AllLack
    <3>. QED
      BY <3>1 DEF AllLack
  <2>. QED
    BY <2>4, <2>5, <2>6 DEF p
<1>. QED
  BY <1>2, <1>3, <1>4

\* What of the first k records has been put into the parts.
PutSoFar(items, k, parts) ==
    /\ parts \in FileParts
    /\ \A r : (\A i \in 1 .. k : items[i].run # r) => AllLack(parts, r)
    /\ \A r : \A v \in Nat : (\E i \in 1 .. k : IsFirst(items, i, r, v)) => Holds(parts, r, v)

\* What begins a list is found in its parts.
LEMMA SplitKeeps ==
    ASSUME NEW items \in Seq(StoreItems)
    PROVE  /\ Store!Split(items) \in FileParts
           /\ \A r : \A v \in Nat : Begins(items, r, v) => Holds(Store!Split(items), r, v)
<1>. DEFINE N == Len(items)
<1>1. N \in Nat /\ \A i \in 1 .. N : items[i] \in StoreItems
  OBVIOUS
<1>2. PICK parts : /\ parts[0] = << << >> >>
                   /\ \A k \in 1 .. N : parts[k] = Packed(parts[k - 1], items[k])
                   /\ Store!Split(items) = parts[N]
  BY SplitInTurn
<1>. HIDE DEF N
<1>. DEFINE T == {k \in 0 .. N : PutSoFar(items, k, parts[k])}
<1>3. 0 \in T
  <2>1. << << >> >> \in Seq(Seq(StoreItems)) /\ Len(<< << >> >>) = 1 /\ Len(<< << >> >>[1]) = 0
    OBVIOUS
  <2>2. << << >> >> \in FileParts
    BY <2>1 DEF FileParts
  <2>3. \A r : AllLack(<< << >> >>, r)
    BY <2>1 DEF AllLack, Lacks
  <2>. QED
    BY <1>1, <1>2, <2>2, <2>3 DEF PutSoFar
<1>4. ASSUME NEW k \in 0 .. N - 1, k \in T PROVE k + 1 \in T
  <2>1. k + 1 \in 1 .. N /\ k + 1 \in 0 .. N /\ (k + 1) - 1 = k /\ items[k + 1] \in StoreItems
    BY <1>1
  <2>2. parts[k + 1] = Packed(parts[k], items[k + 1]) /\ PutSoFar(items, k, parts[k])
    BY <1>2, <1>4, <2>1
  <2>3. parts[k] \in FileParts /\ parts[k + 1] \in FileParts
    BY <2>1, <2>2, PackedLast DEF PutSoFar
  <2>4. ASSUME NEW r, \A i \in 1 .. k + 1 : items[i].run # r PROVE AllLack(parts[k + 1], r)
    <3>1. AllLack(parts[k], r) /\ items[k + 1].run # r
      BY <1>1, <2>1, <2>2, <2>4 DEF PutSoFar
    <3>. QED
      <4>1. ASSUME NEW v \in Nat
            PROVE  AllLack(parts[k], r) /\ items[k + 1].run # r
                   => AllLack(Packed(parts[k], items[k + 1]), r)
        BY <2>1, <2>3, PackedKeeps
      <4>2. 0 \in Nat
        OBVIOUS
      <4>. QED
        BY <2>2, <3>1, <4>1, <4>2
  <2>5. ASSUME NEW r, NEW v \in Nat, NEW i \in 1 .. k + 1, IsFirst(items, i, r, v)
        PROVE  Holds(parts[k + 1], r, v)
    <3>1. CASE i \in 1 .. k
      <4>1. Holds(parts[k], r, v)
        BY <2>2, <2>5, <3>1 DEF PutSoFar
      <4>. QED
        BY <2>1, <2>2, <2>3, <4>1, PackedKeeps
    <3>2. CASE i = k + 1
      <4>1. AllLack(parts[k], r) /\ items[k + 1].run = r /\ items[k + 1].version >= v
        BY <2>1, <2>2, <2>5, <3>2 DEF PutSoFar, IsFirst
      <4>. QED
        BY <2>1, <2>2, <2>3, <4>1, PackedKeeps
    <3>. QED
      BY <1>1, <3>1, <3>2
  <2>. QED
    BY <2>1, <2>3, <2>4, <2>5 DEF PutSoFar
<1>. HIDE DEF T
<1>5. \A k \in 0 .. N - 1 : k \in T => k + 1 \in T
  BY <1>4
<1>6. \A k \in 0 .. N : k \in T
  BY <1>1, <1>3, <1>5, UpTo
<1>7. PutSoFar(items, N, Store!Split(items))
  BY <1>1, <1>2, <1>6 DEF T
<1>. QED
  BY <1>7 DEF PutSoFar, Begins, N

\* A list without the records of some runs, as one record more comes.
Spared(kept, item, gone) == IF item.run \in gone THEN kept ELSE Append(kept, item)

\* Without takes one record after the other.
LEMMA WithoutInTurn ==
    ASSUME NEW items \in Seq(StoreItems), NEW gone
    PROVE  \E kept : /\ kept[0] = <<>>
                     /\ \A k \in 1 .. Len(items) : kept[k] = Spared(kept[k - 1], items[k], gone)
                     /\ Store!Without(items, gone) = kept[Len(items)]
<1>. DEFINE N == Len(items)
            onto == [i \in 1 .. N |-> [v \in Seq(StoreItems) |-> Spared(v, items[i], gone)]]
            E(f) == [s \in SUBSET (1 .. N) |->
                        IF s = {} THEN <<>> ELSE Spared(f[s \ {Store!Max(s)}],
                        items[Store!Max(s)], gone)]
            iter == CHOOSE f : f = E(f)
<1>1. N \in Nat /\ DOMAIN items = 1 .. N /\ \A i \in 1 .. N : items[i] \in StoreItems
  OBVIOUS
<1>2. <<>> \in Seq(StoreItems)
  OBVIOUS
<1>3. onto \in [1 .. N -> [Seq(StoreItems) -> Seq(StoreItems)]]
  BY <1>1 DEF Spared
<1>4. PICK f \in [SUBSET (1 .. N) -> Seq(StoreItems)] : Folds(N, <<>>, onto, f)
  <2>. HIDE DEF onto, N
  <2>. QED
    BY <1>1, <1>2, <1>3, FoldsExist
<1>5. f = E(f)
  <2>1. ASSUME NEW s \in SUBSET (1 .. N), s # {}
        PROVE  onto[Store!Max(s)][f[s \ {Store!Max(s)}]] = Spared(f[s \ {Store!Max(s)}],
               items[Store!Max(s)], gone)
    <3>1. Store!Max(s) \in 1 .. N
      BY <1>1, <2>1, TheMaximum
    <3>2. f[s \ {Store!Max(s)}] \in Seq(StoreItems)
      BY <1>4
    <3>. QED
      BY <3>1, <3>2
  <2>2. f = [s \in SUBSET (1 .. N) |->
                IF s = {} THEN <<>> ELSE onto[Store!Max(s)][f[s \ {Store!Max(s)}]]]
    BY <1>4 DEF Folds
  <2>. HIDE DEF onto, N
  <2>. QED
    BY <2>1, <2>2
<1>6. iter = E(iter)
  <2>. HIDE DEF E
  <2>. QED
    BY <1>5
<1>7. Store!Without(items, gone) = iter[1 .. N]
  BY <1>1 DEF Store!Without, Store!FoldLeft, Store!MapThenFoldSet, Spared
<1>8. /\ iter[1 .. 0] = <<>>
      /\ \A k \in 1 .. N : iter[1 .. k] = Spared(iter[1 .. k - 1], items[k], gone)
  <2>. HIDE DEF iter, N
  <2>1. 1 .. 0 = {} /\ {} \in SUBSET (1 .. N)
    OBVIOUS
  <2>2. ASSUME NEW k \in 1 .. N
        PROVE  iter[1 .. k] = Spared(iter[1 .. k - 1], items[k], gone)
    <3>1. /\ 1 .. k \in SUBSET (1 .. N) /\ 1 .. k # {} /\ Store!Max(1 .. k) = k
          /\ (1 .. k) \ {k} = 1 .. k - 1
      BY <1>1, FirstPlaces
    <3>2. iter[1 .. k] = Spared(iter[(1 .. k) \ {Store!Max(1 .. k)}],
          items[Store!Max(1 .. k)], gone)
      BY <1>6, <3>1
    <3>. QED
      BY <3>1, <3>2
  <2>. QED
    BY <1>6, <2>1, <2>2
<1>. DEFINE kept == [k \in 0 .. N |-> iter[1 .. k]]
<1>. HIDE DEF iter
<1>9. /\ kept[0] = <<>> /\ Store!Without(items, gone) = kept[N]
      /\ \A k \in 1 .. N : kept[k] = Spared(kept[k - 1], items[k], gone)
  BY <1>1, <1>7, <1>8
<1>. QED
  BY <1>9

\* What of the first k records has been kept.
SparedSoFar(items, k, gone, kept) ==
    /\ kept \in Seq(StoreItems)
    /\ \A r : r \in gone \/ (\A i \in 1 .. k : items[i].run # r) => Lacks(kept, r)
    /\ \A r : \A v \in Nat :
          r \notin gone /\ (\E i \in 1 .. k : IsFirst(items, i, r, v)) => Begins(kept, r, v)

\* What is left has no record of these runs, and the first one of another as before.
LEMMA WithoutKeeps ==
    ASSUME NEW items \in Seq(StoreItems), NEW gone
    PROVE  /\ Store!Without(items, gone) \in Seq(StoreItems)
           /\ \A r : r \in gone \/ Lacks(items, r) => Lacks(Store!Without(items, gone), r)
           /\ \A r : \A v \in Nat :
                 r \notin gone /\ Begins(items, r, v)
                 => Begins(Store!Without(items, gone), r, v)
<1>. DEFINE N == Len(items)
<1>1. N \in Nat /\ \A i \in 1 .. N : items[i] \in StoreItems
  OBVIOUS
<1>2. PICK kept : /\ kept[0] = <<>>
                  /\ \A k \in 1 .. N : kept[k] = Spared(kept[k - 1], items[k], gone)
                  /\ Store!Without(items, gone) = kept[N]
  BY WithoutInTurn
<1>. HIDE DEF N
<1>. DEFINE T == {k \in 0 .. N : SparedSoFar(items, k, gone, kept[k])}
<1>3. 0 \in T
  <2>1. <<>> \in Seq(StoreItems) /\ \A r : Lacks(<<>>, r)
    BY DEF Lacks
  <2>2. 0 \in 0 .. N /\ 1 .. 0 = {}
    BY <1>1
  <2>3. SparedSoFar(items, 0, gone, kept[0])
    BY <1>2, <2>1, <2>2 DEF SparedSoFar
  <2>. QED
    BY <2>2, <2>3
<1>4. ASSUME NEW k \in 0 .. N - 1, k \in T PROVE k + 1 \in T
  <2>. DEFINE item == items[k + 1]
  <2>1. k + 1 \in 1 .. N /\ k + 1 \in 0 .. N /\ (k + 1) - 1 = k /\ item \in StoreItems
    BY <1>1
  <2>2. kept[k + 1] = Spared(kept[k], item, gone) /\ SparedSoFar(items, k, gone, kept[k])
    BY <1>2, <1>4, <2>1
  <2>. HIDE DEF item
  <2>3. kept[k] \in Seq(StoreItems) /\ kept[k + 1] \in Seq(StoreItems)
    BY <2>1, <2>2 DEF SparedSoFar, Spared
  <2>4. ASSUME NEW r, NEW v \in Nat
        PROVE  /\ Lacks(kept[k], r) /\ (r \in gone \/ item.run # r) => Lacks(kept[k + 1], r)
               /\ Begins(kept[k], r, v) => Begins(kept[k + 1], r, v)
               /\ /\ Lacks(kept[k], r) /\ r \notin gone /\ item.run = r /\ item.version >= v
                  => Begins(kept[k + 1], r, v)
    <3>1. CASE item.run \in gone
      BY <2>2, <3>1 DEF Spared
    <3>2. CASE item.run \notin gone
      <4>1. kept[k + 1] = Append(kept[k], item)
        BY <2>2, <3>2 DEF Spared
      <4>. QED
        BY <2>1, <2>3, <3>2, <4>1, FoundWithOneMore
    <3>. QED
      BY <3>1, <3>2
  <2>5. ASSUME NEW r, r \in gone \/ (\A i \in 1 .. k + 1 : items[i].run # r)
        PROVE  Lacks(kept[k + 1], r)
    <3>1. Lacks(kept[k], r) /\ (r \in gone \/ item.run # r)
      BY <1>1, <2>1, <2>2, <2>5 DEF SparedSoFar, item
    <3>2. 0 \in Nat
      OBVIOUS
    <3>. QED
      BY <2>4, <3>1, <3>2
  <2>6. ASSUME NEW r, NEW v \in Nat, r \notin gone, NEW i \in 1 .. k + 1,
               IsFirst(items, i, r, v)
        PROVE  Begins(kept[k + 1], r, v)
    <3>1. CASE i \in 1 .. k
      <4>1. Begins(kept[k], r, v)
        BY <2>2, <2>6, <3>1 DEF SparedSoFar
      <4>. QED
        BY <2>4, <4>1
    <3>2. CASE i = k + 1
      <4>1. Lacks(kept[k], r) /\ item.run = r /\ item.version >= v
        BY <2>1, <2>2, <2>6, <3>2 DEF SparedSoFar, IsFirst, item
      <4>. QED
        BY <2>4, <2>6, <4>1
    <3>. QED
      BY <1>1, <3>1, <3>2
  <2>. QED
    BY <2>1, <2>3, <2>5, <2>6 DEF SparedSoFar
<1>. HIDE DEF T
<1>5. \A k \in 0 .. N - 1 : k \in T => k + 1 \in T
  BY <1>4
<1>6. \A k \in 0 .. N : k \in T
  BY <1>1, <1>3, <1>5, UpTo
<1>7. SparedSoFar(items, N, gone, Store!Without(items, gone))
  BY <1>1, <1>2, <1>6 DEF T
<1>. QED
  BY <1>7 DEF SparedSoFar, Begins, Lacks, N

\* The parts of a file, one behind the other.
LEMMA FlattenInTurn ==
    ASSUME NEW parts \in FileParts
    PROVE  \E f \in [1 .. Len(parts) -> Seq(StoreItems)] :
              /\ Store!FlattenSeq(parts) = f[Len(parts)] /\ f[1] = parts[1]
              /\ \A i \in 2 .. Len(parts) : f[i] = f[i - 1] \o parts[i]
<1>. DEFINE N == Len(parts)
            E(f, n) == [i \in 1 .. n |-> IF i = 1 THEN parts[i] ELSE f[i - 1] \o parts[i]]
            T == {n \in 0 .. N : \E f \in [1 .. n -> Seq(StoreItems)] : f = E(f, n)}
            flatten == CHOOSE f : f = E(f, N)
<1>1. N \in Nat \ {0} /\ \A i \in 1 .. N : parts[i] \in Seq(StoreItems)
  BY DEF FileParts
<1>. HIDE DEF N
<1>2. 0 \in T
  <2>1. 1 .. 0 = {}
    OBVIOUS
  <2>2. [i \in 1 .. 0 |-> 0] \in [1 .. 0 -> Seq(StoreItems)]
        /\ [i \in 1 .. 0 |-> 0] = E([i \in 1 .. 0 |-> 0], 0)
    BY <2>1
  <2>3. 0 \in 0 .. N
    BY <1>1
  <2>. HIDE DEF E
  <2>. QED
    BY <2>2, <2>3
<1>3. ASSUME NEW n \in 0 .. N - 1, n \in T PROVE n + 1 \in T
  <2>1. PICK f \in [1 .. n -> Seq(StoreItems)] : f = E(f, n)
    BY <1>3
  <2>. DEFINE g == [i \in 1 .. n + 1 |->
                      IF i \in 1 .. n THEN f[i]
                      ELSE IF i = 1 THEN parts[i] ELSE f[i - 1] \o parts[i]]
  <2>2. n + 1 \in 0 .. N /\ n \in Nat
    BY <1>1
  <2>3. ASSUME NEW i \in 1 .. n + 1
        PROVE  g[i] \in Seq(StoreItems)
               /\ g[i] = IF i = 1 THEN parts[i] ELSE g[i - 1] \o parts[i]
    <3>1. parts[i] \in Seq(StoreItems)
      BY <1>1, <2>2
    <3>2. CASE i \in 1 .. n
      <4>1. g[i] = f[i] /\ f[i] \in Seq(StoreItems)
        BY <3>2
      <4>2. f[i] = IF i = 1 THEN parts[i] ELSE f[i - 1] \o parts[i]
        BY <2>1, <3>2
      <4>3. i # 1 => i - 1 \in 1 .. n /\ i - 1 \in 1 .. n + 1 /\ g[i - 1] = f[i - 1]
        BY <2>2
      <4>. HIDE DEF g
      <4>. QED
        BY <4>1, <4>2, <4>3
    <3>3. CASE i = n + 1
      <4>1. i \notin 1 .. n /\ g[i] = IF i = 1 THEN parts[i] ELSE f[i - 1] \o parts[i]
        BY <2>2, <3>3
      <4>2. i # 1 => i - 1 \in 1 .. n /\ i - 1 \in 1 .. n + 1 /\ g[i - 1] = f[i - 1]
        BY <2>2, <3>3
      <4>3. i # 1 => f[i - 1] \in Seq(StoreItems)
        BY <4>2
      <4>. HIDE DEF g
      <4>. QED
        BY <3>1, <4>1, <4>2, <4>3
    <3>. QED
      BY <2>2, <3>2, <3>3
  <2>4. g \in [1 .. n + 1 -> Seq(StoreItems)] /\ g = E(g, n + 1)
    <3>1. g = [i \in 1 .. n + 1 |-> g[i]]
      OBVIOUS
    <3>. HIDE DEF g
    <3>. QED
      BY <2>3, <3>1
  <2>. HIDE DEF g, E
  <2>. QED
    BY <2>2, <2>4
<1>4. \A n \in 0 .. N - 1 : n \in T => n + 1 \in T
  BY <1>3
<1>5. N \in T
  <2>. HIDE DEF T
  <2>1. N \in Nat /\ N \in 0 .. N
    BY <1>1
  <2>2. \A n \in 0 .. N : n \in T
    BY <1>2, <1>4, <2>1, UpTo
  <2>. QED
    BY <2>1, <2>2
<1>6. flatten = E(flatten, N)
  <2>1. \E f : f = E(f, N)
    BY <1>5
  <2>. HIDE DEF E
  <2>. QED
    BY <2>1
<1>7. Store!FlattenSeq(parts) = flatten[N]
  BY <1>1 DEF Store!FlattenSeq, N
<1>. HIDE DEF flatten
<1>8. \A i \in 1 .. N : flatten[i] = IF i = 1 THEN parts[i] ELSE flatten[i - 1] \o parts[i]
  BY <1>6
<1>. HIDE DEF E
<1>. DEFINE U == {n \in 0 .. N : n # 0 => flatten[n] \in Seq(StoreItems)}
<1>9. \A n \in 0 .. N : n \in U
  <2>1. 0 \in U
    BY <1>1
  <2>2. ASSUME NEW n \in 0 .. N - 1, n \in U PROVE n + 1 \in U
    <3>1. n + 1 \in 1 .. N /\ n + 1 \in 0 .. N /\ (n + 1) - 1 = n /\ (n + 1 = 1 <=> n = 0)
      BY <1>1
    <3>2. flatten[n + 1] = IF n + 1 = 1 THEN parts[n + 1]
                           ELSE flatten[(n + 1) - 1] \o parts[n + 1]
      BY <1>8, <3>1
    <3>3. parts[n + 1] \in Seq(StoreItems) /\ (n # 0 => flatten[n] \in Seq(StoreItems))
      BY <1>1, <2>2, <3>1
    <3>4. flatten[n + 1] \in Seq(StoreItems)
      BY <3>1, <3>2, <3>3
    <3>. QED
      BY <3>1, <3>4
  <2>3. \A n \in 0 .. N - 1 : n \in U => n + 1 \in U
    BY <2>2
  <2>. HIDE DEF U
  <2>. QED
    BY <1>1, <2>1, <2>3, UpTo
<1>10. \A n \in 1 .. N : flatten[n] \in Seq(StoreItems)
  BY <1>1, <1>9
<1>. DEFINE f == [n \in 1 .. N |-> flatten[n]]
<1>11. f \in [1 .. N -> Seq(StoreItems)]
  BY <1>10
<1>12. /\ Store!FlattenSeq(parts) = f[N] /\ f[1] = parts[1]
       /\ \A i \in 2 .. N : f[i] = f[i - 1] \o parts[i]
  <2>1. 1 \in 1 .. N /\ N \in 1 .. N
    BY <1>1
  <2>2. ASSUME NEW i \in 2 .. N PROVE f[i] = f[i - 1] \o parts[i]
    <3>1. i \in 1 .. N /\ i - 1 \in 1 .. N /\ i # 1
      BY <1>1
    <3>. QED
      BY <1>8, <3>1
  <2>. QED
    BY <1>7, <1>8, <2>1, <2>2
<1>. HIDE DEF f
<1>. QED
  BY <1>11, <1>12 DEF N

\* What is found in the parts is what is found in what is read from them.
LEMMA FlattenKeeps ==
    ASSUME NEW parts \in FileParts
    PROVE  /\ Store!FlattenSeq(parts) \in Seq(StoreItems)
           /\ \A r : \A v \in Nat : Begins(Store!FlattenSeq(parts), r, v) <=> Holds(parts, r, v)
<1>. DEFINE N == Len(parts)
<1>1. N \in Nat \ {0} /\ \A i \in 1 .. N : parts[i] \in Seq(StoreItems)
  BY DEF FileParts
<1>2. PICK f \in [1 .. N -> Seq(StoreItems)] :
              /\ Store!FlattenSeq(parts) = f[N] /\ f[1] = parts[1]
              /\ \A i \in 2 .. N : f[i] = f[i - 1] \o parts[i]
  BY FlattenInTurn
<1>. HIDE DEF N
<1>. DEFINE LackUp(n, r) == \A l \in 1 .. n : Lacks(parts[l], r)
            HoldUp(n, r, v) == \E m \in 1 .. n : Begins(parts[m], r, v) /\ LackUp(m - 1, r)
            T == {n \in 0 .. N : n # 0 => \A r : \A v \in Nat :
                    /\ Lacks(f[n], r) <=> LackUp(n, r)
                    /\ Begins(f[n], r, v) <=> HoldUp(n, r, v)}
<1>3. 0 \in T
  BY <1>1
<1>4. ASSUME NEW n \in 0 .. N - 1, n \in T PROVE n + 1 \in T
  <2>1. n + 1 \in 1 .. N /\ n + 1 \in 0 .. N /\ (n + 1) - 1 = n
        /\ parts[n + 1] \in Seq(StoreItems)
    BY <1>1
  <2>2. ASSUME NEW r, NEW v \in Nat
        PROVE  /\ LackUp(n + 1, r) <=> LackUp(n, r) /\ Lacks(parts[n + 1], r)
               /\ HoldUp(n + 1, r, v)
                  <=> HoldUp(n, r, v) \/ (LackUp(n, r) /\ Begins(parts[n + 1], r, v))
    <3>1. \A l \in 1 .. n + 1 : l \in 1 .. n \/ l = n + 1
      BY <1>1
    <3>2. \A l \in 1 .. n : l \in 1 .. n + 1
      BY <1>1
    <3>3. n + 1 \in 1 .. n + 1
      BY <1>1
    <3>4. LackUp(n + 1, r) <=> LackUp(n, r) /\ Lacks(parts[n + 1], r)
      BY <3>1, <3>2, <3>3
    <3>. HIDE DEF LackUp
    <3>. QED
      BY <2>1, <3>1, <3>2, <3>3, <3>4
  <2>3. CASE n = 0
    <3>1. f[n + 1] = parts[n + 1]
      BY <1>2, <2>3
    <3>2. ASSUME NEW r, NEW v \in Nat PROVE LackUp(n, r) /\ ~HoldUp(n, r, v)
      BY <2>3
    <3>. HIDE DEF LackUp, HoldUp
    <3>. QED
      BY <2>1, <2>2, <3>1, <3>2
  <2>4. CASE n # 0
    <3>1. n + 1 \in 2 .. N /\ n \in 1 .. N
      BY <1>1, <2>4
    <3>2. f[n + 1] = f[n] \o parts[n + 1] /\ f[n] \in Seq(StoreItems)
      BY <1>2, <2>1, <3>1
    <3>3. ASSUME NEW r, NEW v \in Nat
          PROVE  /\ Lacks(f[n], r) <=> LackUp(n, r)
                 /\ Begins(f[n], r, v) <=> HoldUp(n, r, v)
      BY <1>4, <2>4
    <3>4. ASSUME NEW r, NEW v \in Nat
          PROVE  /\ Lacks(f[n + 1], r) <=> Lacks(f[n], r) /\ Lacks(parts[n + 1], r)
                 /\ Begins(f[n + 1], r, v)
                    <=> Begins(f[n], r, v) \/ (Lacks(f[n], r) /\ Begins(parts[n + 1], r, v))
      BY <2>1, <3>2, FoundInBoth
    <3>. HIDE DEF LackUp, HoldUp
    <3>. QED
      BY <2>1, <2>2, <3>3, <3>4
  <2>. QED
    BY <2>3, <2>4
<1>. HIDE DEF T
<1>5. \A n \in 0 .. N - 1 : n \in T => n + 1 \in T
  BY <1>4
<1>6. \A n \in 0 .. N : n \in T
  BY <1>1, <1>3, <1>5, UpTo
<1>7. ASSUME NEW r, NEW v \in Nat PROVE Begins(f[N], r, v) <=> HoldUp(N, r, v)
  <2>1. N \in T /\ N # 0
    BY <1>1, <1>6
  <2>. HIDE DEF LackUp, HoldUp
  <2>. QED
    BY <2>1 DEF T
<1>. QED
  BY <1>1, <1>2, <1>7 DEF Holds, N

\* What a file, or the parts a writer is about to put, keep of a run's confirmed version.
Keeps(parts, r) == confirmed[r] = 0 \/ Holds(parts, r, confirmed[r])

\* A writer holds the parts of a whole file, with its own record in it.
WriterRecord == [pc : {"idle", "write"}, run : Runs \cup {0}, version : Nat,
                 parts : Seq(Seq(StoreItems)), next : Nat]
GoodWriter(w, last) ==
    w.pc = "write" =>
        /\ w.run \in Runs /\ w.version <= last /\ w.parts \in FileParts
        /\ 1 <= w.next /\ w.next <= Len(w.parts) + 1
        /\ Holds(w.parts, w.run, w.version)

StoreTyped ==
    /\ files \in FileParts
    /\ writer \in [Threads -> WriterRecord]
    /\ \A t \in Threads : GoodWriter(writer[t], writes)
    /\ cleaner \in [pc : {"idle", "write"}, keep : Seq(StoreItems), gone : SUBSET Runs]
    /\ confirmed \in [Runs -> Nat] /\ writes \in Nat
    /\ \A r \in Runs : confirmed[r] <= writes
    /\ spoiled \subseteq Runs /\ stale \in [Store!Writers -> SUBSET Runs]

\* One thread at a time is between its first and its last part; what it writes is stale for
\* all who had read the file before.
InTheirTurn ==
    /\ \A t, u \in Threads : Store!Writing(t) /\ Store!Writing(u) => t = u
    /\ \A t, u \in Threads :
          Store!Writing(t) /\ t # u /\ writer[u].pc = "write" => writer[t].run \in stale[u]

\* The parts it has put are there, unless a clean-up came between.
PutIsThere ==
    \A t \in Threads : Store!Writing(t) =>
        /\ writer[t].next - 1 <= Len(files)
        /\ (stale[t] # Runs \/ spoiled # Runs) =>
              \A i \in 1 .. writer[t].next - 1 : files[i] = writer[t].parts[i]

\* What a thread is about to write lacks only what others wrote meanwhile.
CopiesKeep ==
    \A t \in Threads : writer[t].pc = "write" =>
        \A r \in Runs \ spoiled :
            (r \in stale[t] /\ ~Store!Writing(t)) \/ Keeps(writer[t].parts, r)

\* The clean-up script holds what it read, if nobody has written since.
CleanerKeeps ==
    cleaner.pc = "write" /\ stale[Store!Cleaner] = {} =>
        Store!Unlocked /\ cleaner.keep = Store!Without(files[1], cleaner.gone)

FileKeeps == Store!Unlocked => \A r \in Runs \ spoiled : Keeps(files, r)

StoreInv ==
    /\ StoreTyped /\ InTheirTurn /\ PutIsThere /\ CopiesKeep /\ CleanerKeeps /\ FileKeeps

\* What is found in the file is what a request gets.
LEMMA StoreImplied == StoreInv => Store!LostOnlyByRaceOrTear
<1>. SUFFICES ASSUME StoreInv, Store!Unlocked, NEW r \in Runs \ spoiled
                     PROVE Store!Get(r) >= confirmed[r]
  BY DEF Store!LostOnlyByRaceOrTear
<1>1. files \in FileParts /\ confirmed[r] \in Nat /\ Keeps(files, r)
  BY DEF StoreInv, StoreTyped, FileKeeps
<1>2. Store!Stored \in Seq(StoreItems)
  BY <1>1, FlattenKeeps DEF Store!Stored
<1>. DEFINE I == {i \in 1 .. Len(Store!Stored) : Store!Stored[i].run = r}
<1>3. Store!SelectInSeq(Store!Stored,
      LAMBDA item : item.run = r) = IF I # {} THEN Store!Min(I) ELSE 0
  BY DEF Store!SelectInSeq
<1>4. CASE I = {}
  <2>1. ~Begins(Store!Stored, r, confirmed[r])
    BY <1>4 DEF Begins, IsFirst
  <2>2. ~Holds(files, r, confirmed[r])
    BY <1>1, <2>1, FlattenKeeps DEF Store!Stored
  <2>3. Store!Get(r) = 0 /\ confirmed[r] = 0
    BY <1>1, <1>3, <1>4, <2>2 DEF Store!Get, Keeps
  <2>. QED
    BY <2>3
<1>5. CASE I # {}
  <2>. DEFINE first == Store!Min(I)
  <2>1. \E x \in I : \A y \in I : x <= y
    <3>1. I \subseteq 1 .. Len(Store!Stored) /\ Len(Store!Stored) \in Nat
      OBVIOUS
    <3>. HIDE DEF I
    <3>. QED
      BY <1>5, <3>1, FirstOf
  <2>2. first \in I /\ \A y \in I : first <= y
    <3>. HIDE DEF I
    <3>. QED
      BY <2>1, Zenon DEF Store!Min
  <2>. HIDE DEF first
  <2>3. first # 0 /\ first \in 1 .. Len(Store!Stored) /\ Store!Stored[first].version \in Nat
    <3>1. first \in 1 .. Len(Store!Stored) /\ Len(Store!Stored) \in Nat
      BY <1>2, <2>2
    <3>2. Store!Stored[first] \in StoreItems
      BY <1>2, <3>1
    <3>. QED
      BY <3>1, <3>2 DEF StoreItems
  <2>4. Store!Get(r) = Store!Stored[first].version
    BY <1>3, <1>5, <2>3 DEF Store!Get, first
  <2>5. CASE confirmed[r] = 0
    BY <2>3, <2>4, <2>5
  <2>6. CASE confirmed[r] # 0
    <3>1. Begins(Store!Stored, r, confirmed[r])
      BY <1>1, <2>6, FlattenKeeps DEF Store!Stored, Keeps
    <3>2. PICK i \in 1 .. Len(Store!Stored) : IsFirst(Store!Stored, i, r, confirmed[r])
      BY <3>1 DEF Begins
    <3>3. i \in I /\ first <= i
      BY <2>2, <3>2 DEF IsFirst
    <3>4. ~(first < i)
      BY <1>2, <2>2, <2>3, <3>2 DEF IsFirst
    <3>5. first = i
      BY <2>3, <3>3, <3>4
    <3>. QED
      BY <2>4, <3>2, <3>5 DEF IsFirst
  <2>. QED
    BY <2>5, <2>6
<1>. QED
  BY <1>4, <1>5

\* A run's new record is the first of it, and those of others are as they were.
Renewed(items, new, changed) ==
    /\ changed \in Seq(StoreItems) /\ Begins(changed, new.run, new.version)
    /\ \A q : \A v \in Nat : q # new.run /\ Begins(items, q, v) => Begins(changed, q, v)

\* Upserted is that.
LEMMA UpsertedRenews ==
    ASSUME NEW items \in Seq(StoreItems), NEW new \in StoreItems
    PROVE  Renewed(items, new, Store!Upserted(items, new))
<1>. DEFINE old == {i \in DOMAIN items : items[i].run = new.run}
            r == new.run
<1>1. new.version \in Nat /\ new.version >= new.version
  BY DEF StoreItems
<1>2. DOMAIN items = 1 .. Len(items) /\ Len(items) \in Nat
  OBVIOUS
<1>3. CASE old = {}
  <2>1. Store!Upserted(items, new) = Append(items, new)
    BY <1>3 DEF Store!Upserted
  <2>2. Lacks(items, r)
    BY <1>2, <1>3 DEF Lacks
  <2>3. Append(items, new) \in Seq(StoreItems)
    OBVIOUS
  <2>4. Begins(Append(items, new), r, new.version)
    BY <1>1, <2>2, FoundWithOneMore
  <2>5. ASSUME NEW q, NEW v \in Nat, Begins(items, q, v) PROVE Begins(Append(items, new), q, v)
    BY <2>5, FoundWithOneMore
  <2>. QED
    BY <2>1, <2>3, <2>4, <2>5 DEF Renewed
<1>4. CASE old # {}
  <2>. DEFINE m == Store!Min(old)  changed == [items EXCEPT ![m] = new]
  <2>1. \E x \in old : \A y \in old : x <= y
    <3>1. old \subseteq 1 .. Len(items) /\ Len(items) \in Nat
      BY <1>2
    <3>. HIDE DEF old
    <3>. QED
      BY <1>4, <3>1, FirstOf
  <2>2. m \in old /\ \A y \in old : m <= y
    <3>. HIDE DEF old
    <3>. QED
      BY <2>1, Zenon DEF Store!Min
  <2>3. Store!Upserted(items, new) = changed
    BY <1>4 DEF Store!Upserted
  <2>. HIDE DEF m
  <2>4. m \in 1 .. Len(items) /\ items[m].run = r
    BY <1>2, <2>2
  <2>5. /\ changed \in Seq(StoreItems) /\ Len(changed) = Len(items)
        /\ \A i \in 1 .. Len(items) : changed[i] = IF i = m THEN new ELSE items[i]
    BY <2>4
  <2>. HIDE DEF changed
  <2>6. \A j \in 1 .. m - 1 : changed[j].run # r
    <3>1. ASSUME NEW j \in 1 .. m - 1 PROVE changed[j].run # r
      <4>1. j \in 1 .. Len(items) /\ ~(m <= j) /\ j # m
        BY <1>2, <2>4
      <4>. QED
        BY <1>2, <2>2, <2>5, <4>1
    <3>. QED
      BY <3>1
  <2>7. Begins(changed, r, new.version)
    BY <1>1, <2>4, <2>5, <2>6 DEF Begins, IsFirst
  <2>8. ASSUME NEW q, NEW v \in Nat, q # r, Begins(items, q, v) PROVE Begins(changed, q, v)
    <3>1. PICK i \in 1 .. Len(items) : IsFirst(items, i, q, v)
      BY <2>8 DEF Begins
    <3>2. i # m /\ changed[i] = items[i]
      BY <2>4, <2>5, <2>8, <3>1 DEF IsFirst
    <3>3. ASSUME NEW j \in 1 .. i - 1 PROVE changed[j].run # q
      <4>1. j \in 1 .. Len(items)
        BY <1>2
      <4>2. changed[j] = IF j = m THEN new ELSE items[j]
        BY <2>5, <4>1
      <4>. QED
        BY <2>8, <3>1, <4>2 DEF IsFirst
    <3>. QED
      BY <2>5, <3>1, <3>2, <3>3 DEF Begins, IsFirst
  <2>. QED
    BY <2>3, <2>5, <2>7, <2>8 DEF Renewed
<1>. QED
  BY <1>3, <1>4

\* And so is Replaced.
LEMMA ReplacedRenews ==
    ASSUME NEW items \in Seq(StoreItems), NEW new \in StoreItems
    PROVE  Renewed(items, new, Store!Replaced(items, new))
<1>. DEFINE kept == Store!Without(items, {new.run})
<1>1. new.version \in Nat /\ new.version >= new.version
  BY DEF StoreItems
<1>2. /\ kept \in Seq(StoreItems) /\ Lacks(kept, new.run)
      /\ \A q : \A v \in Nat : q # new.run /\ Begins(items, q, v) => Begins(kept, q, v)
  BY WithoutKeeps
<1>3. Store!Replaced(items, new) = Append(kept, new)
  BY DEF Store!Replaced
<1>. HIDE DEF kept
<1>4. Append(kept, new) \in Seq(StoreItems)
  BY <1>2
<1>5. Begins(Append(kept, new), new.run, new.version)
  BY <1>1, <1>2, FoundWithOneMore
<1>6. ASSUME NEW q, NEW v \in Nat, q # new.run, Begins(items, q, v)
      PROVE  Begins(Append(kept, new), q, v)
  BY <1>2, <1>6, FoundWithOneMore
<1>. QED
  BY <1>3, <1>4, <1>5, <1>6 DEF Renewed

\* A thread that writes nothing.
LEMMA IdleIsOne == Store!Idle \in WriterRecord /\ Store!Idle.pc = "idle"
<1>. DEFINE none == << >>
<1>1. none \in Seq(Seq(StoreItems))
  OBVIOUS
<1>. HIDE DEF none
<1>2. [pc |-> "idle", run |-> 0, version |-> 0, parts |-> none, next |-> 0] \in WriterRecord
  BY <1>1 DEF WriterRecord
<1>. QED
  BY <1>2 DEF Store!Idle, none

\* Who finds a version finds an earlier one.
LEMMA HoldsEarlier ==
    ASSUME NEW parts \in FileParts, NEW r, NEW v \in Nat, NEW n \in Nat, n <= v,
           Holds(parts, r, v)
    PROVE  Holds(parts, r, n)
<1>1. PICK m \in 1 .. Len(parts) :
          Begins(parts[m], r, v) /\ \A l \in 1 .. m - 1 : Lacks(parts[l], r)
  BY DEF Holds
<1>2. PICK i \in 1 .. Len(parts[m]) : IsFirst(parts[m], i, r, v)
  BY <1>1 DEF Begins
<1>3. parts[m] \in Seq(StoreItems)
  BY DEF FileParts
<1>4. parts[m][i].version \in Nat
  <2>1. parts[m][i] \in StoreItems
    BY <1>3, ElementOfSeq, Len(parts[m]) \in Nat
  <2>. QED
    BY <2>1 DEF StoreItems
<1>5. IsFirst(parts[m], i, r, n)
  BY <1>2, <1>4 DEF IsFirst
<1>6. Begins(parts[m], r, n)
  BY <1>5 DEF Begins
<1>. QED
  BY <1>1, <1>6 DEF Holds

\* FileParts that are the first of a file are found in it.
LEMMA FirstPartsHold ==
    ASSUME NEW parts \in FileParts, NEW whole \in FileParts, Len(parts) <= Len(whole),
           \A i \in 1 .. Len(parts) : whole[i] = parts[i],
           NEW r, NEW v, Holds(parts, r, v)
    PROVE  Holds(whole, r, v)
<1>1. PICK m \in 1 .. Len(parts) :
          Begins(parts[m], r, v) /\ \A l \in 1 .. m - 1 : Lacks(parts[l], r)
  BY DEF Holds
<1>2. Len(parts) \in Nat /\ Len(whole) \in Nat
  BY DEF FileParts
<1>3. m \in 1 .. Len(whole) /\ whole[m] = parts[m]
  BY <1>2
<1>4. ASSUME NEW l \in 1 .. m - 1 PROVE Lacks(whole[l], r)
  <2>1. l \in 1 .. Len(parts)
    BY <1>2
  <2>. QED
    BY <1>1, <2>1
<1>. QED
  BY <1>1, <1>3, <1>4 DEF Holds

\* Nothing is stored yet.
LEMMA StoreInit == Store!Init => StoreInv
<1>. SUFFICES ASSUME Store!Init PROVE StoreInv
  OBVIOUS
<1>1. << << >> >> \in FileParts
  <2>1. << << >> >> \in Seq(Seq(StoreItems)) /\ Len(<< << >> >>) = 1
    OBVIOUS
  <2>. QED
    BY <2>1 DEF FileParts
<1>2. Store!Idle \in WriterRecord /\ Store!Idle.pc = "idle"
  BY IdleIsOne
<1>3. \A t \in Threads : writer[t] = Store!Idle /\ ~Store!Writing(t)
  BY <1>2 DEF Store!Init, Store!Writing
<1>4. Store!NoCleanup \in [pc : {"idle", "write"}, keep : Seq(StoreItems), gone : SUBSET Runs]
      /\ Store!NoCleanup.pc = "idle"
  BY DEF Store!NoCleanup
<1>5. StoreTyped
  BY <1>1, <1>2, <1>3, <1>4 DEF Store!Init, StoreTyped, GoodWriter
<1>6. InTheirTurn /\ PutIsThere /\ CopiesKeep
  BY <1>2, <1>3 DEF InTheirTurn, PutIsThere, CopiesKeep
<1>7. CleanerKeeps
  BY <1>4 DEF CleanerKeeps, Store!Init
<1>8. FileKeeps
  BY DEF FileKeeps, Keeps, Store!Init
<1>. QED
  BY <1>5, <1>6, <1>7, <1>8 DEF StoreInv

\* A record that was not confirmed keeps nothing, one that was is found by its version.
LEMMA KeepsIsBegins ==
    ASSUME StoreTyped, NEW r \in Runs
    PROVE  Keeps(files, r) => confirmed[r] = 0 \/ Begins(Store!Stored, r, confirmed[r])
  BY FlattenKeeps DEF StoreTyped, Keeps, Store!Stored

\* A thread that loads holds what was stored, with its record.
LEMMA LoadKeeps ==
    ASSUME Store!StoreAssumption, StoreInv, NEW t \in Threads, NEW r \in Runs, Store!Load(t, r)
    PROVE  StoreInv'
<1>. DEFINE v == writes + 1
<1>0. StoreTyped
  BY DEF StoreInv
<1>1. /\ Store!Unlocked /\ writes' = v /\ writer[t].pc = "idle"
      /\ stale' = [stale EXCEPT ![t] = {}]
      /\ UNCHANGED <<files, cleaner, confirmed, spoiled, faults, cleanups>>
  BY DEF Store!Load
<1>2. PICK size \in 1 .. PartSize :
          \E items \in {Store!Upserted(Store!Stored, Store!Item(r, v, size)),
          Store!Replaced(Store!Stored, Store!Item(r, v, size))} :
              writer' = [writer EXCEPT ![t] =
                  [pc |-> "write", run |-> r, version |-> Store!Item(r, v, size).version,
                   parts |-> Store!Split(items), next |-> 1]]
  BY DEF Store!Load
<1>. DEFINE new == Store!Item(r, v, size)
<1>3. PICK items \in {Store!Upserted(Store!Stored, new), Store!Replaced(Store!Stored, new)} :
              writer' = [writer EXCEPT ![t] =
                  [pc |-> "write", run |-> r, version |-> new.version,
                   parts |-> Store!Split(items), next |-> 1]]
  BY <1>2
<1>4. /\ writes \in Nat /\ v \in Nat /\ new \in StoreItems /\ new.version = v /\ new.run = r
      /\ Store!Stored \in Seq(StoreItems)
  <2>1. writes \in Nat /\ v \in Nat
    BY <1>0 DEF StoreTyped
  <2>2. Store!Stored \in Seq(StoreItems)
    BY <1>0, FlattenKeeps DEF StoreTyped, Store!Stored
  <2>3. size \in Nat
    OBVIOUS
  <2>4. new \in StoreItems
    BY <2>1, <2>3 DEF Store!Item, StoreItems
  <2>. QED
    BY <2>1, <2>2, <2>4 DEF Store!Item
<1>. HIDE DEF new
<1>5. Renewed(Store!Stored, new, items)
  BY <1>3, <1>4, UpsertedRenews, ReplacedRenews
<1>. DEFINE w == [pc |-> "write", run |-> r, version |-> v, parts |-> Store!Split(items),
     next |-> 1]
<1>6. /\ Store!Split(items) \in FileParts
      /\ Holds(Store!Split(items), r, v)
      /\ \A q \in Runs \ {r} : \A n \in Nat : Begins(Store!Stored, q, n)
         => Holds(Store!Split(items), q, n)
  BY <1>4, <1>5, SplitKeeps DEF Renewed
<1>7. /\ writer' = [writer EXCEPT ![t] = w]
      /\ writer'[t] = w /\ \A u \in Threads \ {t} : writer'[u] = writer[u]
  BY <1>0, <1>3, <1>4 DEF StoreTyped
<1>8. /\ w \in WriterRecord /\ GoodWriter(w, v) /\ w.pc = "write" /\ w.next = 1
      /\ w.parts = Store!Split(items) /\ w.run = r
  BY <1>4, <1>6 DEF WriterRecord, GoodWriter, FileParts
<1>. HIDE DEF w
<1>9. /\ stale'[t] = {} /\ \A u \in Store!Writers \ {t} : stale'[u] = stale[u]
      /\ t \in Store!Writers /\ Store!Cleaner \in Store!Writers \ {t}
      /\ stale' \in [Store!Writers -> SUBSET Runs]
  BY <1>0, <1>1 DEF StoreTyped, Store!Writers, Store!StoreAssumption, Store!Cleaner
<1>10. /\ \A u \in Threads : ~Store!Writing(u) /\ ~Store!Writing(u)'
       /\ Store!Unlocked'
  BY <1>1, <1>7, <1>8 DEF Store!Unlocked, Store!Writing
<1>11. StoreTyped'
  <2>1. ASSUME NEW u \in Threads PROVE GoodWriter(writer'[u], v)
    <3>1. CASE u = t
      BY <1>7, <1>8, <3>1
    <3>2. CASE u # t
      <4>1. GoodWriter(writer[u], writes) /\ writer[u] \in WriterRecord
        BY <1>0 DEF StoreTyped
      <4>. QED
        BY <1>4, <1>7, <3>2, <4>1 DEF GoodWriter, WriterRecord
    <3>. QED
      BY <3>1, <3>2
  <2>2. \A q \in Runs : confirmed'[q] <= v
    BY <1>0, <1>1, <1>4 DEF StoreTyped
  <2>. QED
    BY <1>0, <1>1, <1>4, <1>7, <1>8, <1>9, <2>1, <2>2 DEF StoreTyped
<1>12. (InTheirTurn /\ PutIsThere)'
  BY <1>10 DEF InTheirTurn, PutIsThere
<1>13. CopiesKeep'
  <2>1. ASSUME NEW u \in Threads, writer'[u].pc = "write", NEW q \in Runs \ spoiled,
               ~(q \in stale'[u] /\ ~Store!Writing(u)')
        PROVE  confirmed[q] = 0 \/ Holds(writer'[u].parts, q, confirmed[q])
    <3>1. CASE u # t
      <4>1. q \notin stale[u] /\ writer[u] = writer'[u]
        BY <1>7, <1>9, <1>10, <2>1, <3>1 DEF Store!Writers
      <4>2. Keeps(writer[u].parts, q)
        BY <1>10, <2>1, <4>1 DEF StoreInv, CopiesKeep
      <4>. QED
        BY <4>1, <4>2 DEF Keeps
    <3>2. CASE u = t
      <4>1. Keeps(files, q) /\ confirmed[q] \in Nat /\ confirmed[q] <= v
        BY <1>0, <1>1, <1>4 DEF StoreInv, FileKeeps, StoreTyped
      <4>2. writer'[u].parts = Store!Split(items)
        BY <1>7, <1>8, <3>2
      <4>3. CASE q = r
        <5>1. Holds(Store!Split(items), r, confirmed[q])
          BY <1>4, <1>6, <4>1, HoldsEarlier
        <5>. QED
          BY <4>2, <4>3, <5>1
      <4>4. CASE q # r
        <5>1. confirmed[q] = 0 \/ Begins(Store!Stored, q, confirmed[q])
          BY <1>0, <4>1, KeepsIsBegins
        <5>2. confirmed[q] = 0 \/ Holds(Store!Split(items), q, confirmed[q])
          BY <1>6, <4>1, <4>4, <5>1
        <5>. QED
          BY <4>2, <5>2
      <4>. QED
        BY <4>3, <4>4
    <3>. QED
      BY <3>1, <3>2
  <2>. QED
    BY <1>1, <2>1 DEF CopiesKeep, Keeps
<1>14. CleanerKeeps'
  BY <1>1, <1>9, <1>10 DEF StoreInv, CleanerKeeps
<1>15. FileKeeps'
  BY <1>1 DEF StoreInv, FileKeeps, Keeps
<1>. QED
  BY <1>11, <1>12, <1>13, <1>14, <1>15 DEF StoreInv

\* What appending does to a list.
LEMMA Appended ==
    ASSUME NEW S, NEW s \in Seq(S), NEW x \in S
    PROVE  /\ Append(s, x) \in Seq(S) /\ Len(Append(s, x)) = Len(s) + 1
           /\ \A j \in 1 .. Len(s) : Append(s, x)[j] = s[j]
           /\ Append(s, x)[Len(s) + 1] = x
OBVIOUS

\* A writer that goes on to another part is still one.
LEMMA WriterGoesOn ==
    ASSUME NEW w \in WriterRecord, NEW n \in Nat
    PROVE  LET after == [w EXCEPT !.next = n]
           IN  /\ after \in WriterRecord /\ after.pc = w.pc /\ after.next = n
               /\ after.parts = w.parts /\ after.run = w.run
BY DEF WriterRecord

\* While a thread writes, nobody else begins to, and no read is fresh.
LEMMA WritePartKeeps ==
    ASSUME Store!StoreAssumption, StoreInv, NEW t \in Threads, Store!WritePart(t)
    PROVE  StoreInv'
<1>. DEFINE w == writer[t]  i == w.next
<1>0. StoreTyped
  BY DEF StoreInv
<1>1. /\ w.pc = "write" /\ i <= Len(w.parts) /\ \A u \in Threads \ {t} : ~Store!Writing(u)
      /\ files' = Store!Put(files, i, w.parts[i])
      /\ writer' = [writer EXCEPT ![t].next = i + 1]
      /\ i = 1 => /\ spoiled' = spoiled \cup stale[t]
                  /\ stale' = [u \in Store!Writers |-> IF u = t THEN stale[u]
                                               ELSE stale[u] \cup {w.run}]
      /\ i # 1 => UNCHANGED <<spoiled, stale>>
      /\ UNCHANGED <<cleaner, confirmed, writes, faults, cleanups>>
  BY DEF Store!WritePart
<1>2. w \in WriterRecord /\ GoodWriter(w, writes) /\ w.run \in Runs
  BY <1>0, <1>1 DEF StoreTyped, GoodWriter
<1>3. i \in Nat /\ 1 <= i /\ w.parts \in FileParts /\ Len(w.parts) \in Nat
  BY <1>1, <1>2 DEF GoodWriter, WriterRecord, FileParts
<1>. DEFINE after == [w EXCEPT !.next = i + 1]
<1>4. /\ writer' = [writer EXCEPT ![t] = after]
      /\ writer'[t] = after /\ \A u \in Threads \ {t} : writer'[u] = writer[u]
  BY <1>0, <1>1 DEF StoreTyped
<1>5. /\ after \in WriterRecord /\ after.pc = "write" /\ after.next = i + 1
      /\ after.parts = w.parts /\ after.run = w.run
  <2>1. i + 1 \in Nat
    BY <1>3
  <2>. HIDE DEF w, i
  <2>. QED
    BY <1>1, <1>2, <2>1, WriterGoesOn
<1>6. GoodWriter(after, writes)
  BY <1>1, <1>2, <1>3, <1>5 DEF GoodWriter, WriterRecord
<1>. HIDE DEF after
<1>7. Store!Writing(t)' /\ \A u \in Threads \ {t} : ~Store!Writing(u)'
  BY <1>1, <1>3, <1>4, <1>5 DEF Store!Writing
<1>8. ~Store!Unlocked'
  BY <1>7 DEF Store!Unlocked
<1>9. i # 1 => Store!Writing(t) /\ i - 1 <= Len(files)
  BY <1>1, <1>3 DEF StoreInv, PutIsThere, Store!Writing
<1>10. w.parts[i] \in Seq(StoreItems) /\ files \in FileParts /\ Len(files) \in Nat
       /\ 1 <= Len(files)
       /\ i <= Len(files) + 1
  <2>1. w.parts[i] \in Seq(StoreItems) /\ files \in FileParts
    BY <1>0, <1>1, <1>3 DEF StoreTyped, FileParts
  <2>2. Len(files) \in Nat /\ 1 <= Len(files)
    BY <2>1 DEF FileParts
  <2>. QED
    BY <1>3, <1>9, <2>1, <2>2
<1>11. /\ files' \in FileParts /\ i <= Len(files') /\ files'[i] = w.parts[i]
       /\ \A j \in 1 .. i - 1 : files'[j] = files[j]
  <2>1. CASE i > Len(files)
    <3>. DEFINE part == w.parts[i]
    <3>1. i = Len(files) + 1 /\ files' = Append(files, part)
      BY <1>1, <1>3, <1>10, <2>1 DEF Store!Put
    <3>2. files \in Seq(Seq(StoreItems)) /\ part \in Seq(StoreItems)
      BY <1>10 DEF FileParts
    <3>. HIDE DEF part
    <3>3. /\ files' \in Seq(Seq(StoreItems)) /\ Len(files') = i /\ files'[i] = part
          /\ \A j \in 1 .. Len(files) : files'[j] = files[j]
      <4>. DEFINE longer == Append(files, part)
      <4>1. /\ longer \in Seq(Seq(StoreItems)) /\ Len(longer) = Len(files) + 1
            /\ \A j \in 1 .. Len(files) : longer[j] = files[j]
            /\ longer[Len(files) + 1] = part
        BY <3>2, Appended
      <4>2. files' = longer /\ i = Len(files) + 1
        BY <3>1
      <4>. HIDE DEF longer, i
      <4>3. files' \in Seq(Seq(StoreItems)) /\ Len(files') = Len(files) + 1
        BY ONLY <4>1, <4>2
      <4>4. files'[i] = part
        BY ONLY <4>1, <4>2
      <4>5. \A j \in 1 .. Len(files) : files'[j] = files[j]
        BY ONLY <4>1, <4>2
      <4>. QED
        BY ONLY <4>2, <4>3, <4>4, <4>5
    <3>4. files' # <<>> /\ i - 1 = Len(files)
      BY <1>10, <3>1, <3>3
    <3>. QED
      BY <1>3, <3>3, <3>4 DEF FileParts, part
  <2>2. CASE ~(i > Len(files))
    <3>. DEFINE part == w.parts[i]
    <3>1. i <= Len(files) /\ files' = [files EXCEPT ![i] = part]
      BY <1>1, <1>3, <1>10, <2>2 DEF Store!Put
    <3>2. files \in Seq(Seq(StoreItems)) /\ part \in Seq(StoreItems)
      BY <1>10 DEF FileParts
    <3>. HIDE DEF part
    <3>3. i \in 1 .. Len(files)
      BY <1>3, <1>10, <3>1
    <3>4. /\ files' \in Seq(Seq(StoreItems)) /\ Len(files') = Len(files) /\ files'[i] = part
          /\ \A j \in 1 .. i - 1 : files'[j] = files[j]
      BY <3>1, <3>2, <3>3
    <3>5. files' # <<>>
      BY <1>10, <3>4
    <3>. QED
      BY <3>1, <3>4, <3>5 DEF FileParts, part
  <2>. QED
    BY <2>1, <2>2
<1>12. /\ stale' \in [Store!Writers -> SUBSET Runs] /\ stale'[t] = stale[t]
          /\ spoiled' \subseteq Runs
       /\ \A u \in Store!Writers : stale[u] \subseteq stale'[u]
       /\ i = 1 => \A u \in Store!Writers \ {t} : w.run \in stale'[u]
       /\ t \in Store!Writers /\ Store!Cleaner \in Store!Writers \ {t}
  <2>1. /\ stale \in [Store!Writers -> SUBSET Runs] /\ spoiled \subseteq Runs
        /\ t \in Store!Writers /\ Store!Cleaner \in Store!Writers \ {t}
    BY <1>0 DEF StoreTyped, Store!StoreAssumption, Store!Writers, Store!Cleaner
  <2>. QED
    BY <1>1, <1>2, <2>1
<1>13. StoreTyped'
  <2>1. ASSUME NEW u \in Threads PROVE GoodWriter(writer'[u], writes)
    BY <1>0, <1>4, <1>6 DEF StoreTyped
  <2>. QED
    BY <1>0, <1>1, <1>4, <1>5, <1>11, <1>12, <2>1 DEF StoreTyped
<1>14. InTheirTurn'
  <2>1. ASSUME NEW u \in Threads, u # t, writer'[u].pc = "write" PROVE w.run \in stale'[u]
    <3>1. u \in Store!Writers \ {t} /\ writer[u].pc = "write"
      BY <1>4, <2>1 DEF Store!Writers
    <3>2. i # 1 => w.run \in stale[u]
      BY <1>9, <2>1, <3>1 DEF StoreInv, InTheirTurn
    <3>. QED
      BY <1>12, <3>1, <3>2
  <2>. QED
    BY <1>4, <1>5, <1>7, <2>1 DEF InTheirTurn
<1>15. PutIsThere'
  <2>1. ASSUME stale[t] # Runs \/ spoiled' # Runs, NEW j \in 1 .. i PROVE files'[j] = w.parts[j]
    <3>1. CASE j = i
      BY <1>11, <3>1
    <3>2. CASE j # i
      <4>1. j \in 1 .. i - 1 /\ i # 1 /\ spoiled' = spoiled
        BY <1>1, <1>3, <3>2
      <4>2. files[j] = w.parts[j]
        BY <1>9, <2>1, <4>1 DEF StoreInv, PutIsThere
      <4>. QED
        BY <1>11, <4>1, <4>2
    <3>. QED
      BY <3>1, <3>2
  <2>2. after.next - 1 = i
    BY <1>3, <1>5
  <2>. QED
    BY <1>4, <1>5, <1>7, <1>11, <1>12, <2>1, <2>2 DEF PutIsThere
<1>16. CopiesKeep'
  <2>1. ASSUME NEW u \in Threads, writer'[u].pc = "write", NEW q \in Runs \ spoiled',
               ~(q \in stale'[u] /\ ~Store!Writing(u)')
        PROVE  confirmed[q] = 0 \/ Holds(writer'[u].parts, q, confirmed[q])
    <3>1. u \in Store!Writers /\ writer[u].pc = "write" /\ writer'[u].parts = writer[u].parts
      BY <1>1, <1>4, <1>5, <2>1 DEF Store!Writers
    <3>2. q \in Runs \ spoiled /\ (u = t => Store!Writing(t) \/ q \notin stale[t])
      BY <1>1, <1>9, <2>1
    <3>3. u # t => q \notin stale[u]
      BY <1>7, <1>12, <2>1, <3>1
    <3>4. Keeps(writer[u].parts, q)
      BY <3>1, <3>2, <3>3 DEF StoreInv, CopiesKeep
    <3>. QED
      BY <3>1, <3>4 DEF Keeps
  <2>. QED
    BY <1>1, <2>1 DEF CopiesKeep, Keeps
<1>17. CleanerKeeps'
  <2>1. ASSUME cleaner.pc = "write", stale'[Store!Cleaner] = {} PROVE FALSE
    <3>1. i # 1 /\ stale[Store!Cleaner] = {}
      BY <1>12, <2>1
    <3>2. Store!Unlocked
      BY <2>1, <3>1 DEF StoreInv, CleanerKeeps
    <3>. QED
      BY <1>9, <3>1, <3>2 DEF Store!Unlocked
  <2>. QED
    BY <1>1, <2>1 DEF CleanerKeeps
<1>18. FileKeeps'
  BY <1>8 DEF FileKeeps
<1>. QED
  BY <1>13, <1>14, <1>15, <1>16, <1>17, <1>18 DEF StoreInv

\* Once all its parts are put, the file begins with them.
LEMMA AllPut ==
    ASSUME StoreInv, NEW t \in Threads, Store!Writing(t),
           writer[t].next > Len(writer[t].parts), stale[t] # Runs \/ spoiled # Runs
    PROVE  /\ writer[t].parts \in FileParts /\ writer[t].next = Len(writer[t].parts) + 1
           /\ Len(writer[t].parts) <= Len(files)
           /\ \A i \in 1 .. Len(writer[t].parts) : files[i] = writer[t].parts[i]
<1>. DEFINE w == writer[t]
<1>1. StoreTyped /\ w.pc = "write"
  BY DEF StoreInv, Store!Writing
<1>2. w \in WriterRecord /\ GoodWriter(w, writes)
  BY <1>1 DEF StoreTyped
<1>3. w.next \in Nat /\ w.parts \in FileParts /\ w.next <= Len(w.parts) + 1
  BY <1>1, <1>2 DEF WriterRecord, GoodWriter
<1>4. Len(w.parts) \in Nat
  BY <1>3 DEF FileParts
<1>5. w.next = Len(w.parts) + 1 /\ w.next - 1 = Len(w.parts)
  BY <1>3, <1>4
<1>6. w.next - 1 <= Len(files) /\ \A i \in 1 .. w.next - 1 : files[i] = w.parts[i]
  BY DEF StoreInv, PutIsThere
<1>. QED
  BY <1>3, <1>5, <1>6

\* What a thread stops writing between two parts is torn; otherwise the file has it all.
LEMMA StoppedKeeps ==
    ASSUME StoreInv, NEW t \in Threads, Store!Writing(t),
           writer[t].next > Len(writer[t].parts), NEW q \in Runs \ spoiled
    PROVE  Keeps(files, q)
<1>. DEFINE w == writer[t]
<1>1. spoiled # Runs
  OBVIOUS
<1>2. /\ w.parts \in FileParts /\ Len(w.parts) <= Len(files)
      /\ \A i \in 1 .. Len(w.parts) : files[i] = w.parts[i]
  BY <1>1, AllPut
<1>3. files \in FileParts
  BY DEF StoreInv, StoreTyped
<1>4. confirmed[q] = 0 \/ Holds(w.parts, q, confirmed[q])
  BY DEF StoreInv, CopiesKeep, Keeps, Store!Writing
<1>5. confirmed[q] = 0 \/ Holds(files, q, confirmed[q])
  BY <1>2, <1>3, <1>4, FirstPartsHold
<1>. QED
  BY <1>5 DEF Keeps

\* A write that has ended left the parts the thread had, and nothing else.
LEMMA FinishWriteKeeps ==
    ASSUME Store!StoreAssumption, StoreInv, NEW t \in Threads, Store!FinishWrite(t)
    PROVE  StoreInv'
<1>. DEFINE w == writer[t]  r == w.run
<1>0. StoreTyped
  BY DEF StoreInv
<1>1. /\ w.pc = "write" /\ w.next > Len(w.parts)
      /\ files' = SubSeq(files, 1, Len(w.parts))
      /\ writer' = [writer EXCEPT ![t] = Store!Idle]
      /\ confirmed' = [confirmed EXCEPT ![r] = w.version]
      /\ spoiled' = IF stale[t] = {} THEN spoiled \ {r} ELSE spoiled
      /\ UNCHANGED <<cleaner, stale, writes, faults, cleanups>>
  BY DEF Store!FinishWrite
<1>2. /\ w \in WriterRecord /\ r \in Runs /\ w.version \in Nat /\ w.version <= writes
      /\ w.parts \in FileParts /\ Holds(w.parts, r, w.version) /\ w.next \in Nat
      /\ w.next <= Len(w.parts) + 1
  BY <1>0, <1>1 DEF StoreTyped, GoodWriter, WriterRecord
<1>3. Len(w.parts) \in Nat /\ 1 <= Len(w.parts) /\ files \in FileParts /\ Len(files) \in Nat
  BY <1>0, <1>2 DEF FileParts, StoreTyped
<1>4. Store!Writing(t) /\ Len(w.parts) <= Len(files)
  <2>1. Store!Writing(t)
    BY <1>1, <1>2, <1>3 DEF Store!Writing
  <2>2. w.next - 1 <= Len(files)
    BY <2>1 DEF StoreInv, PutIsThere
  <2>. QED
    BY <1>1, <1>2, <1>3, <2>1, <2>2
<1>5. \A u \in Threads \ {t} : ~Store!Writing(u)
  BY <1>4 DEF StoreInv, InTheirTurn
<1>6. /\ writer'[t] = Store!Idle /\ \A u \in Threads \ {t} : writer'[u] = writer[u]
      /\ Store!Idle \in WriterRecord /\ Store!Idle.pc = "idle"
  BY <1>0, <1>1, IdleIsOne DEF StoreTyped
<1>7. \A u \in Threads : ~Store!Writing(u)'
  BY <1>5, <1>6 DEF Store!Writing
<1>8. files' \in FileParts /\ Len(files') = Len(w.parts)
      /\ \A i \in 1 .. Len(w.parts) : files'[i] = files[i]
  <2>. DEFINE n == Len(w.parts)
  <2>1. n \in 1 .. Len(files) /\ files \in Seq(Seq(StoreItems))
    BY <1>3, <1>4 DEF FileParts
  <2>. HIDE DEF n
  <2>2. /\ SubSeq(files, 1, n) \in Seq(Seq(StoreItems)) /\ Len(SubSeq(files, 1, n)) = n
        /\ \A i \in 1 .. n : SubSeq(files, 1, n)[i] = files[i]
    BY <2>1
  <2>3. files' = SubSeq(files, 1, n) /\ n = Len(w.parts)
    BY <1>1 DEF n
  <2>4. /\ files' \in Seq(Seq(StoreItems)) /\ Len(files') = n
        /\ \A i \in 1 .. n : files'[i] = files[i]
    BY <2>2, <2>3
  <2>5. Len(files') >= 1
    BY <1>3, <2>3, <2>4
  <2>6. files' # <<>>
    BY <2>5
  <2>. QED
    BY <2>3, <2>4, <2>6 DEF FileParts
<1>9. /\ confirmed' \in [Runs -> Nat] /\ confirmed'[r] = w.version
      /\ \A q \in Runs \ {r} : confirmed'[q] = confirmed[q]
      /\ \A q \in Runs : confirmed'[q] <= writes
  BY <1>0, <1>1, <1>2 DEF StoreTyped
<1>10. /\ spoiled' \subseteq Runs
       /\ \A q \in Runs \ spoiled' : q = r \/ q \in Runs \ spoiled
       /\ \A q \in Runs \ spoiled' : stale[t] # Runs \/ spoiled # Runs
  BY <1>0, <1>1 DEF StoreTyped
<1>11. StoreTyped'
  <2>1. GoodWriter(Store!Idle, writes)
    BY <1>6 DEF GoodWriter
  <2>2. \A u \in Threads : writer'[u] = Store!Idle \/ writer'[u] = writer[u]
    BY <1>6
  <2>3. \A u \in Threads : GoodWriter(writer'[u], writes)
    BY <1>0, <2>1, <2>2 DEF StoreTyped
  <2>. QED
    BY <1>0, <1>1, <1>6, <1>8, <1>9, <1>10, <2>3 DEF StoreTyped
<1>12. (InTheirTurn /\ PutIsThere)'
  BY <1>7 DEF InTheirTurn, PutIsThere
<1>13. CopiesKeep'
  <2>1. ASSUME NEW u \in Threads, writer'[u].pc = "write", NEW q \in Runs \ spoiled',
               ~(q \in stale[u] /\ ~Store!Writing(u)')
        PROVE  confirmed'[q] = 0 \/ Holds(writer'[u].parts, q, confirmed'[q])
    <3>1. u # t /\ writer'[u] = writer[u] /\ writer[u].pc = "write" /\ q \notin stale[u]
      BY <1>6, <1>7, <2>1
    <3>2. r \in stale[u]
      BY <1>4, <3>1 DEF StoreInv, InTheirTurn
    <3>3. q # r /\ q \in Runs \ spoiled
      BY <1>10, <3>1, <3>2
    <3>4. confirmed[q] = 0 \/ Holds(writer[u].parts, q, confirmed[q])
      BY <3>1, <3>3 DEF StoreInv, CopiesKeep, Keeps
    <3>. QED
      BY <1>9, <3>1, <3>3, <3>4
  <2>. QED
    BY <1>1, <2>1 DEF CopiesKeep, Keeps
<1>14. CleanerKeeps'
  BY <1>1, <1>4 DEF StoreInv, CleanerKeeps, Store!Unlocked
<1>15. FileKeeps'
  <2>1. ASSUME NEW q \in Runs \ spoiled'
        PROVE  confirmed'[q] = 0 \/ Holds(files', q, confirmed'[q])
    <3>1. stale[t] # Runs \/ spoiled # Runs
      BY <1>10
    <3>2. \A i \in 1 .. Len(w.parts) : files'[i] = w.parts[i]
      BY <1>1, <1>4, <1>8, <3>1, AllPut
    <3>3. confirmed'[q] = 0 \/ Holds(w.parts, q, confirmed'[q])
      <4>1. CASE q = r
        BY <1>2, <1>9, <4>1
      <4>2. CASE q # r
        <5>1. q \in Runs \ spoiled
          BY <1>10, <4>2
        <5>2. confirmed[q] = 0 \/ Holds(w.parts, q, confirmed[q])
          BY <1>1, <1>4, <5>1 DEF StoreInv, CopiesKeep, Keeps
        <5>. QED
          BY <1>9, <4>2, <5>2
      <4>. QED
        BY <4>1, <4>2
    <3>4. Len(w.parts) <= Len(files')
      BY <1>3, <1>8
    <3>5. Holds(w.parts, q, confirmed'[q]) => Holds(files', q, confirmed'[q])
      BY <1>2, <1>8, <3>2, <3>4, FirstPartsHold
    <3>. QED
      BY <3>3, <3>5
  <2>. QED
    BY <2>1 DEF FileKeeps, Keeps
<1>. QED
  BY <1>11, <1>12, <1>13, <1>14, <1>15 DEF StoreInv

\* Threads that stop writing, one or all: what is cut off between two parts is torn.
LEMMA StopKeeps ==
    ASSUME Store!StoreAssumption, StoreInv,
           writer' \in [Threads -> WriterRecord],
           \A u \in Threads : writer'[u] = Store!Idle \/ writer'[u] = writer[u],
           UNCHANGED <<files, cleaner, confirmed, stale, writes, cleanups>>,
           spoiled' = spoiled \/ spoiled' = Runs,
           spoiled' = spoiled \/ \A u \in Threads : Store!Writing(u) => writer'[u] = Store!Idle,
           \A u \in Threads : Store!Writing(u) /\ writer'[u] = Store!Idle
               /\ writer[u].next <= Len(writer[u].parts) => spoiled' = Runs
    PROVE  StoreInv'
<1>0. StoreTyped
  BY DEF StoreInv
<1>1. Store!Idle \in WriterRecord /\ Store!Idle.pc = "idle"
  BY IdleIsOne
<1>2. \A u \in Threads : writer'[u].pc = "write" => writer'[u] = writer[u]
  BY <1>1
<1>3. \A u \in Threads : Store!Writing(u)' => Store!Writing(u) /\ spoiled' = spoiled
  BY <1>1, <1>2 DEF Store!Writing
<1>4. StoreTyped'
  <2>1. GoodWriter(Store!Idle, writes)
    BY <1>1 DEF GoodWriter
  <2>2. \A u \in Threads : GoodWriter(writer'[u], writes)
    BY <1>0, <2>1 DEF StoreTyped
  <2>3. spoiled' \subseteq Runs
    BY <1>0 DEF StoreTyped
  <2>. QED
    BY <1>0, <2>2, <2>3 DEF StoreTyped
<1>5. InTheirTurn'
  BY <1>2, <1>3 DEF StoreInv, InTheirTurn, Store!Writing
<1>6. PutIsThere'
  BY <1>2, <1>3 DEF StoreInv, PutIsThere, Store!Writing
<1>7. CopiesKeep'
  <2>1. ASSUME NEW u \in Threads, writer'[u].pc = "write", NEW q \in Runs \ spoiled',
               ~(q \in stale[u] /\ ~Store!Writing(u)')
        PROVE  confirmed[q] = 0 \/ Holds(writer'[u].parts, q, confirmed[q])
    <3>1. writer'[u] = writer[u] /\ (Store!Writing(u) <=> Store!Writing(u)')
      BY <1>2, <2>1 DEF Store!Writing
    <3>2. q \in Runs \ spoiled
      BY <2>1
    <3>. QED
      BY <2>1, <3>1, <3>2 DEF StoreInv, CopiesKeep, Keeps
  <2>. QED
    BY <2>1 DEF CopiesKeep, Keeps
<1>8. CleanerKeeps'
  BY <1>3 DEF StoreInv, CleanerKeeps, Store!Unlocked
<1>9. FileKeeps'
  <2>1. ASSUME Store!Unlocked', NEW q \in Runs \ spoiled' PROVE Keeps(files, q)
    <3>1. q \in Runs \ spoiled
      BY <2>1
    <3>2. CASE Store!Unlocked
      BY <3>1, <3>2 DEF StoreInv, FileKeeps
    <3>3. CASE ~Store!Unlocked
      <4>1. PICK u \in Threads : Store!Writing(u)
        BY <3>3 DEF Store!Unlocked
      <4>2. writer'[u] = Store!Idle
        BY <2>1, <4>1 DEF Store!Unlocked, Store!Writing
      <4>3. ~(writer[u].next <= Len(writer[u].parts))
        BY <2>1, <4>1, <4>2
      <4>4. writer[u].next > Len(writer[u].parts)
        <5>1. writer[u] \in WriterRecord
          BY <1>0 DEF StoreTyped
        <5>2. writer[u].next \in Nat /\ Len(writer[u].parts) \in Nat
          BY <5>1 DEF WriterRecord
        <5>. QED
          BY <4>3, <5>2
      <4>. QED
        BY <3>1, <4>1, <4>4, StoppedKeeps
    <3>. QED
      BY <3>2, <3>3
  <2>. QED
    BY <2>1 DEF FileKeeps, Keeps
<1>. QED
  BY <1>4, <1>5, <1>6, <1>7, <1>8, <1>9 DEF StoreInv

\* A write that is refused.
LEMMA WriteFailsKeeps ==
    ASSUME Store!StoreAssumption, StoreInv, NEW t \in Threads, Store!WriteFails(t)
    PROVE  StoreInv'
<1>1. /\ writer' = [writer EXCEPT ![t] = Store!Idle]
      /\ spoiled' = IF Store!Writing(t) /\ writer[t].next <= Len(writer[t].parts)
                    THEN Runs ELSE spoiled
      /\ UNCHANGED <<files, cleaner, confirmed, stale, writes, cleanups>>
  BY DEF Store!WriteFails
<1>2. writer \in [Threads -> WriterRecord] /\ Store!Idle \in WriterRecord
  BY IdleIsOne DEF StoreInv, StoreTyped
<1>3. /\ writer' \in [Threads -> WriterRecord] /\ writer'[t] = Store!Idle
      /\ \A u \in Threads \ {t} : writer'[u] = writer[u]
  BY <1>1, <1>2
<1>4. Store!Writing(t) => \A u \in Threads \ {t} : ~Store!Writing(u)
  BY DEF StoreInv, InTheirTurn
<1>5. \A u \in Threads : writer'[u] = Store!Idle \/ writer'[u] = writer[u]
  BY <1>3
<1>6. spoiled' = spoiled \/ \A u \in Threads : Store!Writing(u) => writer'[u] = Store!Idle
  BY <1>1, <1>3, <1>4
<1>7. ASSUME NEW u \in Threads, Store!Writing(u), writer'[u] = Store!Idle,
             writer[u].next <= Len(writer[u].parts)
      PROVE  spoiled' = Runs
  <2>1. writer[u] # Store!Idle
    BY <1>7, IdleIsOne DEF Store!Writing
  <2>2. u = t
    BY <1>3, <1>7, <2>1
  <2>. QED
    BY <1>1, <1>7, <2>2
<1>. QED
  BY <1>1, <1>3, <1>5, <1>6, <1>7, StopKeeps

\* And a crash.
LEMMA StoreCrashKeeps ==
    ASSUME Store!StoreAssumption, StoreInv, Store!Crash
    PROVE  StoreInv'
<1>1. /\ writer' = [t \in Threads |-> Store!Idle]
      /\ spoiled' = IF \E t \in Threads : Store!Writing(t)
         /\ writer[t].next <= Len(writer[t].parts)
                    THEN Runs ELSE spoiled
      /\ UNCHANGED <<files, cleaner, confirmed, stale, writes, cleanups>>
  BY DEF Store!Crash
<1>2. writer' \in [Threads -> WriterRecord] /\ \A u \in Threads : writer'[u] = Store!Idle
  BY <1>1, IdleIsOne
<1>3. \A u \in Threads : Store!Writing(u) /\ writer[u].next <= Len(writer[u].parts)
      => spoiled' = Runs
  BY <1>1
<1>4. spoiled' = spoiled \/ spoiled' = Runs
  BY <1>1
<1>. QED
  BY <1>1, <1>2, <1>3, <1>4, StopKeeps

\* The clean-up script reads what is there, unless a thread is in the middle of it.
LEMMA CleanupReadKeeps ==
    ASSUME Store!StoreAssumption, StoreInv, Store!CleanupRead
    PROVE  StoreInv'
<1>0. StoreTyped
  BY DEF StoreInv
<1>1. PICK gone \in {{}} \cup {{r} : r \in Runs} :
          cleaner' = [pc |-> "write", gone |-> gone, keep |-> Store!Without(files[1], gone)]
  BY DEF Store!CleanupRead
<1>2. /\ stale' = [stale EXCEPT ![Store!Cleaner] =
                      IF \E t \in Threads : Store!Writing(t) THEN Runs ELSE {}]
      /\ UNCHANGED <<files, writer, confirmed, spoiled, writes, faults>>
  BY DEF Store!CleanupRead
<1>3. /\ Store!Cleaner \in Store!Writers /\ Threads \subseteq Store!Writers
         /\ Store!Cleaner \notin Threads
      /\ stale' \in [Store!Writers -> SUBSET Runs] /\ \A t \in Threads : stale'[t] = stale[t]
      /\ stale'[Store!Cleaner] = IF \E t \in Threads : Store!Writing(t) THEN Runs ELSE {}
  BY <1>0, <1>2 DEF StoreTyped, Store!Writers, Store!StoreAssumption, Store!Cleaner
<1>4. files[1] \in Seq(StoreItems) /\ gone \subseteq Runs
  BY <1>0 DEF StoreTyped, FileParts
<1>5. Store!Without(files[1], gone) \in Seq(StoreItems)
  BY <1>4, WithoutKeeps
<1>. DEFINE kept == Store!Without(files[1], gone)
<1>. HIDE DEF kept
<1>6. cleaner' \in [pc : {"idle", "write"}, keep : Seq(StoreItems), gone : SUBSET Runs]
  <2>1. cleaner' = [pc |-> "write", gone |-> gone, keep |-> kept]
    BY <1>1 DEF kept
  <2>2. kept \in Seq(StoreItems)
    BY <1>5 DEF kept
  <2>. QED
    BY <1>4, <2>1, <2>2
<1>7. StoreTyped'
  BY <1>0, <1>2, <1>3, <1>6 DEF StoreTyped
<1>8. (InTheirTurn /\ PutIsThere /\ CopiesKeep /\ FileKeeps)'
  <2>1. \A t \in Threads : Store!Writing(t)' <=> Store!Writing(t)
    BY <1>2 DEF Store!Writing
  <2>2. InTheirTurn' /\ PutIsThere'
    BY <1>2, <1>3, <2>1 DEF StoreInv, InTheirTurn, PutIsThere
  <2>3. CopiesKeep'
    BY <1>2, <1>3, <2>1 DEF StoreInv, CopiesKeep, Keeps
  <2>4. FileKeeps'
    BY <1>2, <2>1 DEF StoreInv, FileKeeps, Keeps, Store!Unlocked
  <2>. QED
    BY <2>2, <2>3, <2>4
<1>9. CleanerKeeps'
  <2>1. ASSUME NEW t \in Threads, Store!Writing(t) PROVE Runs # {}
    BY <1>0, <2>1 DEF StoreTyped, Store!Writing, GoodWriter
  <2>2. stale'[Store!Cleaner] = {} => Store!Unlocked'
    BY <1>2, <1>3, <2>1 DEF Store!Unlocked, Store!Writing
  <2>3. cleaner'.keep = Store!Without(files'[1], cleaner'.gone)
    BY <1>1, <1>2
  <2>. QED
    BY <2>2, <2>3 DEF CleanerKeeps
<1>. QED
  BY <1>7, <1>8, <1>9 DEF StoreInv

\* A clean-up writes what it read without the runs it drops, or tears what others wrote.
LEMMA CleanupWriteKeeps ==
    ASSUME Store!StoreAssumption, StoreInv, Store!CleanupWrite
    PROVE  StoreInv'
<1>. DEFINE gone == cleaner.gone  keep == cleaner.keep
<1>0. StoreTyped
  BY DEF StoreInv
<1>1. /\ cleaner.pc = "write"
      /\ files' = [files EXCEPT ![1] = keep]
      /\ cleaner' = Store!NoCleanup
      /\ confirmed' = [r \in Runs |-> IF r \in gone THEN 0 ELSE confirmed[r]]
      /\ spoiled' = IF stale[Store!Cleaner] # {} \/ \E t \in Threads : Store!Writing(t)
                    THEN Runs ELSE spoiled
      /\ stale' = [w \in Store!Writers |-> IF w = Store!Cleaner THEN {} ELSE Runs]
      /\ UNCHANGED <<writer, writes, faults>>
  BY DEF Store!CleanupWrite
<1>2. keep \in Seq(StoreItems) /\ gone \subseteq Runs /\ files \in FileParts
  BY <1>0 DEF StoreTyped
<1>3. /\ stale' \in [Store!Writers -> SUBSET Runs] /\ \A t \in Threads : stale'[t] = Runs
  BY <1>1 DEF Store!Writers, Store!StoreAssumption, Store!Cleaner
<1>4. /\ files' \in FileParts /\ Len(files') = Len(files) /\ files'[1] = keep
      /\ \A i \in 2 .. Len(files) : files'[i] = files[i]
  BY <1>1, <1>2 DEF FileParts
<1>5. \A t \in Threads : Store!Writing(t)' <=> Store!Writing(t)
  BY <1>1 DEF Store!Writing
<1>6. Store!NoCleanup \in [pc : {"idle", "write"}, keep : Seq(StoreItems), gone : SUBSET Runs]
      /\ Store!NoCleanup.pc = "idle"
  BY DEF Store!NoCleanup
<1>7. StoreTyped'
  <2>1. confirmed' \in [Runs -> Nat] /\ \A r \in Runs : confirmed'[r] <= writes
    BY <1>0, <1>1 DEF StoreTyped
  <2>2. spoiled' \subseteq Runs
    BY <1>0, <1>1 DEF StoreTyped
  <2>. QED
    BY <1>0, <1>1, <1>3, <1>4, <1>6, <2>1, <2>2 DEF StoreTyped
<1>8. InTheirTurn'
  <2>1. ASSUME NEW t \in Threads, Store!Writing(t) PROVE writer[t].run \in Runs
    BY <1>0, <2>1 DEF StoreTyped, Store!Writing, GoodWriter
  <2>. QED
    BY <1>1, <1>3, <1>5, <2>1 DEF StoreInv, InTheirTurn
<1>9. PutIsThere'
  <2>1. ASSUME NEW t \in Threads, Store!Writing(t)
        PROVE  writer[t].next - 1 <= Len(files) /\ spoiled' = Runs /\ stale'[t] = Runs
    BY <1>1, <1>3, <2>1 DEF StoreInv, PutIsThere
  <2>. QED
    BY <1>1, <1>4, <1>5, <2>1 DEF PutIsThere
<1>10. CopiesKeep'
  <2>1. ASSUME NEW t \in Threads, NEW q \in Runs \ spoiled'
        PROVE  q \in stale'[t] /\ ~Store!Writing(t)'
    BY <1>1, <1>3, <1>5
  <2>. QED
    BY <2>1 DEF CopiesKeep
<1>11. CleanerKeeps'
  BY <1>1, <1>6 DEF CleanerKeeps
<1>12. FileKeeps'
  <2>1. ASSUME NEW q \in Runs \ spoiled', q \notin gone
        PROVE  confirmed'[q] = 0 \/ Holds(files', q, confirmed'[q])
    <3>1. /\ stale[Store!Cleaner] = {} /\ Store!Unlocked /\ spoiled' = spoiled
          /\ confirmed'[q] = confirmed[q]
      BY <1>1, <2>1 DEF Store!Unlocked
    <3>2. keep = Store!Without(files[1], gone)
      BY <1>1, <3>1 DEF StoreInv, CleanerKeeps
    <3>3. confirmed[q] = 0 \/ Holds(files, q, confirmed[q])
      BY <2>1, <3>1 DEF StoreInv, FileKeeps, Keeps
    <3>4. ASSUME confirmed[q] # 0 PROVE Holds(files', q, confirmed[q])
      <4>1. PICK m \in 1 .. Len(files) :
                /\ Begins(files[m], q, confirmed[q])
                /\ \A l \in 1 .. m - 1 : Lacks(files[l], q)
        BY <3>3, <3>4 DEF Holds
      <4>2. files[1] \in Seq(StoreItems) /\ confirmed[q] \in Nat
        BY <1>0, <1>2 DEF StoreTyped, FileParts
      <4>3. /\ Lacks(files[1], q) => Lacks(keep, q)
            /\ Begins(files[1], q, confirmed[q]) => Begins(keep, q, confirmed[q])
        BY <2>1, <3>2, <4>2, WithoutKeeps
      <4>4. Len(files) \in Nat
        BY <1>2 DEF FileParts
      <4>5. Begins(files'[m], q, confirmed[q])
        <5>1. CASE m = 1
          BY <1>4, <4>1, <4>3, <5>1
        <5>2. CASE m # 1
          BY <1>4, <4>1, <4>4, <5>2
        <5>. QED
          BY <5>1, <5>2
      <4>6. ASSUME NEW l \in 1 .. m - 1 PROVE Lacks(files'[l], q)
        <5>1. CASE l = 1
          BY <1>4, <4>1, <4>3, <5>1
        <5>2. CASE l # 1
          <6>1. l \in 2 .. Len(files)
            BY <4>4, <5>2
          <6>. QED
            BY <1>4, <4>1, <6>1
        <5>. QED
          BY <5>1, <5>2
      <4>. QED
        BY <1>4, <4>5, <4>6 DEF Holds
    <3>. QED
      BY <3>1, <3>4
  <2>2. \A q \in Runs : q \in gone => confirmed'[q] = 0
    BY <1>1
  <2>. QED
    BY <2>1, <2>2 DEF FileKeeps, Keeps
<1>. QED
  BY <1>7, <1>8, <1>9, <1>10, <1>11, <1>12 DEF StoreInv

\* Every step of the store keeps its invariant.
LEMMA StoreStep == Store!StoreAssumption /\ StoreInv /\ [Store!Next]_Store!vars => StoreInv'
<1>. SUFFICES ASSUME Store!StoreAssumption, StoreInv, [Store!Next]_Store!vars PROVE StoreInv'
  OBVIOUS
<1>1. CASE UNCHANGED Store!vars
  <2>1. UNCHANGED <<files, writer, cleaner, confirmed, spoiled, stale, writes>>
    BY <1>1 DEF Store!vars
  <2>2. \A t \in Threads : Store!Writing(t)' <=> Store!Writing(t)
    BY <2>1 DEF Store!Writing
  <2>3. StoreTyped'
    BY <2>1 DEF StoreInv, StoreTyped
  <2>4. InTheirTurn' /\ PutIsThere'
    BY <2>1, <2>2 DEF StoreInv, InTheirTurn, PutIsThere
  <2>5. CopiesKeep'
    BY <2>1, <2>2 DEF StoreInv, CopiesKeep, Keeps
  <2>6. CleanerKeeps' /\ FileKeeps'
    BY <2>1, <2>2 DEF StoreInv, CleanerKeeps, FileKeeps, Keeps, Store!Unlocked
  <2>. QED
    BY <2>3, <2>4, <2>5, <2>6 DEF StoreInv
<1>2. CASE Store!Next
  <2>1. CASE \E t \in Threads, r \in Runs : Store!Load(t, r)
    BY <2>1, LoadKeeps
  <2>2. CASE \E t \in Threads : Store!WritePart(t)
    BY <2>2, WritePartKeeps
  <2>3. CASE \E t \in Threads : Store!FinishWrite(t)
    BY <2>3, FinishWriteKeeps
  <2>4. CASE \E t \in Threads : Store!WriteFails(t)
    BY <2>4, WriteFailsKeeps
  <2>5. CASE Store!Crash
    BY <2>5, StoreCrashKeeps
  <2>6. CASE Store!CleanupRead
    BY <2>6, CleanupReadKeeps
  <2>7. CASE Store!CleanupWrite
    BY <2>7, CleanupWriteKeeps
  <2>. QED
    BY <1>2, <2>1, <2>2, <2>3, <2>4, <2>5, <2>6, <2>7 DEF Store!Next
<1>. QED
  BY <1>1, <1>2

-----------------------------------------------------------------------------
(* The definitions of pipelines, in the variables of the composition *)

\* Values that a number of steps give, each from the one before.
Stepwise(V, base, n, step, f) ==
    /\ f \in [0 .. n -> V]
    /\ f[0] = base
    /\ \A k \in 1 .. n : f[k] = step[k][f[k - 1]]

\* Whatever the steps are, there are such values.
LEMMA StepwiseExists ==
    ASSUME NEW V, NEW base \in V, NEW n \in Nat, NEW step \in [1 .. n -> [V -> V]]
    PROVE  \E f : Stepwise(V, base, n, step, f)
<1>. DEFINE Reaches(m, f) == f[0] = base /\ \A k \in 1 .. m : f[k] = step[k][f[k - 1]]
            T == {m \in 0 .. n : \E f \in [0 .. m -> V] : Reaches(m, f)}
<1>1. 0 \in T
  <2>. DEFINE f == [k \in 0 .. 0 |-> base]
  <2>1. 0 .. 0 = {0}
    OBVIOUS
  <2>2. f \in [0 .. 0 -> V]
    OBVIOUS
  <2>3. f[0] = base
    BY <2>1
  <2>4. Reaches(0, f)
    BY <2>3
  <2>. HIDE DEF f, Reaches
  <2>. QED
    BY <2>2, <2>4
<1>2. ASSUME NEW m \in 0 .. n - 1, m \in T PROVE m + 1 \in T
  <2>1. PICK f \in [0 .. m -> V] : Reaches(m, f)
    BY <1>2
  <2>. DEFINE g == [k \in 0 .. m + 1 |-> IF k = m + 1 THEN step[m + 1][f[m]] ELSE f[k]]
  <2>2. step[m + 1] \in [V -> V] /\ f[m] \in V
    OBVIOUS
  <2>3. g \in [0 .. m + 1 -> V]
    BY <2>2
  <2>4. Reaches(m + 1, g)
    <3>1. g[0] = base
      BY <2>1
    <3>2. ASSUME NEW k \in 1 .. m + 1 PROVE g[k] = step[k][g[k - 1]]
      <4>1. CASE k = m + 1
        BY <4>1
      <4>2. CASE k # m + 1
        <5>1. k \in 1 .. m /\ k - 1 \in 0 .. m /\ k - 1 # m + 1 /\ k \in 0 .. m
          BY <4>2
        <5>2. g[k] = f[k] /\ g[k - 1] = f[k - 1]
          BY <4>2, <5>1
        <5>. QED
          BY <2>1, <5>1, <5>2
      <4>. QED
        BY <4>1, <4>2
    <3>. QED
      BY <3>1, <3>2
  <2>. HIDE DEF g, Reaches
  <2>5. m + 1 \in 0 .. n
    OBVIOUS
  <2>. QED
    BY <2>3, <2>4, <2>5
<1>. HIDE DEF T
<1>3. \A m \in 0 .. n - 1 : m \in T => m + 1 \in T
  BY <1>2
<1>4. n \in T
  BY <1>1, <1>3, UpTo, n \in 0 .. n
<1>. QED
  BY <1>4 DEF T, Stepwise

\* The steps of a part of a graph that is closed can be taken one after the
\* other: whatever of it is left has a step that waits for nothing of that.
Ordered(graph, F) ==
    /\ \A s \in F : graph[s] \subseteq F
    /\ \A S \in SUBSET F : S # {} => \E s \in S : graph[s] \cap S = {}

Graphs == [Catalog!PipelineSteps -> SUBSET Catalog!PipelineSteps]

\* A step that waits only for steps of a part can be added to it.
LEMMA OrderedWithOneMore ==
    ASSUME NEW graph, NEW F, Ordered(graph, F), NEW s, graph[s] \subseteq F, s \notin F
    PROVE  Ordered(graph, F \cup {s})
<1>1. ASSUME NEW t \in F \cup {s} PROVE graph[t] \subseteq F \cup {s}
  BY DEF Ordered
<1>2. ASSUME NEW S \in SUBSET (F \cup {s}), S # {} PROVE \E t \in S : graph[t] \cap S = {}
  <2>1. CASE S \cap F = {}
    BY <1>2, <2>1
  <2>2. CASE S \cap F # {}
    <3>1. PICK t \in S \cap F : graph[t] \cap (S \cap F) = {}
      BY <2>2 DEF Ordered
    <3>2. graph[t] \subseteq F
      BY DEF Ordered
    <3>. QED
      BY <3>1, <3>2
  <2>. QED
    BY <2>1, <2>2
<1>. QED
  BY <1>1, <1>2 DEF Ordered

\* The steps are N.
LEMMA StepsAreFinite ==
    ASSUME PipelineLength \in Nat
    PROVE  IsFiniteSet(Catalog!PipelineSteps)
           /\ Cardinality(Catalog!PipelineSteps) = PipelineLength
<1>1. 1 \in Int /\ PipelineLength \in Int
  OBVIOUS
<1>2. /\ IsFiniteSet(1 .. PipelineLength)
      /\ Cardinality(1 .. PipelineLength) = IF 1 > PipelineLength THEN 0 ELSE PipelineLength - 1 + 1
  BY <1>1, FS_Interval, Zenon
<1>. QED
  BY <1>2 DEF Catalog!PipelineSteps

\* In a graph without a circle some step of any set waits for no other of it.
LEMMA SomeStepIsFirst ==
    ASSUME PipelineLength \in Nat, NEW graph \in Graphs, Catalog!IsAcyclic(graph),
           NEW S \in SUBSET Catalog!PipelineSteps, S # {}
    PROVE  \E s \in S : graph[s] \cap S = {}
<1>1. PICK rank \in [Catalog!PipelineSteps -> Catalog!PipelineSteps] :
         \A s \in Catalog!PipelineSteps : \A t \in graph[s] : rank[t] < rank[s]
  BY DEF Catalog!IsAcyclic
<1>. DEFINE R == {rank[s] : s \in S}
<1>2. R \subseteq 1 .. PipelineLength /\ R # {}
  BY DEF Catalog!PipelineSteps
<1>3. PICK x \in R : \A y \in R : x <= y
  BY <1>2, FirstOf
<1>4. PICK s \in S : x = rank[s]
  BY <1>3
<1>5. ASSUME NEW t \in graph[s] \cap S PROVE FALSE
  <2>1. rank[t] < rank[s] /\ rank[t] \in R
    BY <1>1
  <2>2. rank[s] <= rank[t]
    BY <1>3, <1>4, <2>1
  <2>3. rank[s] \in Catalog!PipelineSteps /\ rank[t] \in Catalog!PipelineSteps
    OBVIOUS
  <2>4. \A u \in Catalog!PipelineSteps : u \in Int
    BY DEF Catalog!PipelineSteps
  <2>5. rank[s] \in Int /\ rank[t] \in Int
    BY <2>3, <2>4
  <2>. QED
    BY <2>1, <2>2, <2>5
<1>. QED
  BY <1>5

\* And the other way round, by counting the steps that have a number.
LEMMA OrderedHasNoCircle ==
    ASSUME PipelineLength \in Nat, NEW graph \in Graphs,
           \A S \in SUBSET Catalog!PipelineSteps : S # {} => \E s \in S : graph[s] \cap S = {}
    PROVE  Catalog!IsAcyclic(graph)
<1>. DEFINE Numbers(F, rank) == \A s \in F : graph[s] \subseteq F
                                   /\ \A t \in graph[s] : rank[t] < rank[s]
            Numbered(n) == \E F \in SUBSET Catalog!PipelineSteps :
                               /\ Cardinality(F) = n
                               /\ \E rank \in [F -> 1 .. n] : Numbers(F, rank)
            T == {n \in 0 .. PipelineLength : Numbered(n)}
<1>0. IsFiniteSet(Catalog!PipelineSteps) /\ Cardinality(Catalog!PipelineSteps) = PipelineLength
  BY StepsAreFinite
<1>1. 0 \in T
  <2>1. Cardinality({}) = 0
    BY FS_EmptySet
  <2>. DEFINE none == [s \in {} |-> 0]
  <2>2. none \in [{} -> 1 .. 0]
    OBVIOUS
  <2>3. Numbers({}, none)
    OBVIOUS
  <2>. HIDE DEF none, Numbers
  <2>4. \E rank \in [{} -> 1 .. 0] : Numbers({}, rank)
    BY <2>2, <2>3
  <2>5. Numbered(0)
    BY <2>1, <2>4
  <2>. HIDE DEF Numbered
  <2>. QED
    BY <2>5
<1>2. ASSUME NEW n \in 0 .. PipelineLength - 1, n \in T PROVE n + 1 \in T
  <2>1. PICK F \in SUBSET Catalog!PipelineSteps : /\ Cardinality(F) = n
                                          /\ \E rank \in [F -> 1 .. n] : Numbers(F, rank)
    BY <1>2
  <2>2. PICK rank \in [F -> 1 .. n] : Numbers(F, rank)
    BY <2>1
  <2>3. Catalog!PipelineSteps \ F # {}
    <3>1. n # PipelineLength
      OBVIOUS
    <3>2. F # Catalog!PipelineSteps
      BY <1>0, <2>1, <3>1
    <3>. QED
      BY <3>2
  <2>4. PICK s \in Catalog!PipelineSteps \ F : graph[s] \cap (Catalog!PipelineSteps \ F) = {}
    BY <2>3
  <2>5. graph[s] \subseteq F
    BY <2>4 DEF Graphs
  <2>. DEFINE G == F \cup {s}
              number == [t \in G |-> IF t = s THEN n + 1 ELSE rank[t]]
  <2>6. G \in SUBSET Catalog!PipelineSteps /\ Cardinality(G) = n + 1
    <3>1. IsFiniteSet(F)
      BY <1>0, FS_Subset
    <3>2. Cardinality(F \cup {s}) = Cardinality(F) + 1
      BY <3>1, <2>4, FS_AddElement
    <3>. QED
      BY <3>2, <2>1
  <2>7. number \in [G -> 1 .. n + 1]
    <3>1. \A t \in F : rank[t] \in 1 .. n
      OBVIOUS
    <3>. QED
      BY <3>1
  <2>8. Numbers(G, number)
    <3>1. ASSUME NEW t \in G, NEW u \in graph[t] PROVE u \in G /\ number[u] < number[t]
      <4>1. CASE t = s
        <5>1. u \in F /\ u # s /\ rank[u] \in 1 .. n
          BY <2>4, <2>5, <4>1
        <5>2. number[u] = rank[u] /\ number[t] = n + 1
          BY <4>1, <5>1
        <5>. QED
          BY <5>1, <5>2
      <4>2. CASE t # s
        <5>1. t \in F
          BY <4>2
        <5>2. u \in F /\ rank[u] < rank[t]
          BY <2>2, <5>1
        <5>3. u # s
          BY <2>4, <5>2
        <5>. QED
          BY <4>2, <5>1, <5>2, <5>3
      <4>. QED
        BY <4>1, <4>2
    <3>. QED
      BY <3>1
  <2>. HIDE DEF G, number, Numbers
  <2>9. n + 1 \in 0 .. PipelineLength
    OBVIOUS
  <2>. QED
    BY <2>6, <2>7, <2>8, <2>9
<1>. HIDE DEF T
<1>3. PipelineLength \in T
  BY <1>1, <1>2, UpTo
<1>4. PICK F \in SUBSET Catalog!PipelineSteps :
         Cardinality(F) = PipelineLength
         /\ \E rank \in [F -> 1 .. PipelineLength] : Numbers(F, rank)
  BY <1>3 DEF T
<1>5. F = Catalog!PipelineSteps
  BY <1>0, <1>4, FS_Subset
<1>. QED
  BY <1>4, <1>5 DEF Catalog!IsAcyclic, Catalog!PipelineSteps

-----------------------------------------------------------------------------
(* The algorithm of the registry *)

\* The rounds in which the steps leave the queue.
Rounds(edges, f) ==
    /\ f \in [0 .. PipelineLength -> SUBSET Catalog!PipelineSteps]
    /\ f[0] = {}
    /\ \A i \in 1 .. PipelineLength :
         f[i] = {s \in Catalog!PipelineSteps : edges[s] \subseteq f[i - 1]}

\* What has left the queue in the end is what the last round leaves.
LEMMA VisitedInRounds ==
    ASSUME PipelineLength \in Nat, NEW edges \in Graphs
    PROVE  \E f : Rounds(edges, f) /\ Catalog!Visited(edges) = f[PipelineLength]
<1>. DEFINE V == SUBSET Catalog!PipelineSteps
            After(R) == {s \in Catalog!PipelineSteps : edges[s] \subseteq R}
            step == [i \in 1 .. PipelineLength |-> [R \in V |-> After(R)]]
            IsRound(r) ==
                r = [i \in 0 .. PipelineLength |-> IF i = 0 THEN {} ELSE After(r[i - 1])]
<1>1. step \in [1 .. PipelineLength -> [V -> V]] /\ {} \in V
  OBVIOUS
<1>2. \A i \in 1 .. PipelineLength : \A R \in V : step[i][R] = After(R)
  OBVIOUS
<1>. HIDE DEF step, V
<1>3. PICK f : Stepwise(V, {}, PipelineLength, step, f)
  BY <1>1, StepwiseExists
<1>4. ASSUME NEW i \in 0 .. PipelineLength PROVE f[i] = IF i = 0 THEN {} ELSE After(f[i - 1])
  <2>1. CASE i = 0
    BY <1>3, <2>1 DEF Stepwise
  <2>2. CASE i # 0
    <3>1. i \in 1 .. PipelineLength /\ i - 1 \in 0 .. PipelineLength
      BY <2>2
    <3>. QED
      BY <1>2, <1>3, <2>2, <3>1 DEF Stepwise
  <2>. QED
    BY <2>1, <2>2
<1>5. IsRound(f)
  BY <1>3, <1>4 DEF Stepwise
<1>6. IsRound(CHOOSE r : IsRound(r))
  BY <1>5
<1>. DEFINE g == CHOOSE r : IsRound(r)
<1>7. Catalog!Visited(edges) = g[PipelineLength]
  BY DEF Catalog!Visited
<1>8. ASSUME NEW i \in 0 .. PipelineLength PROVE g[i] = IF i = 0 THEN {} ELSE After(g[i - 1])
  BY <1>6
<1>9. g = [i \in 0 .. PipelineLength |-> g[i]]
  BY <1>6
<1>. HIDE DEF g, IsRound
<1>10. \A i \in 0 .. PipelineLength : g[i] \in SUBSET Catalog!PipelineSteps
  BY <1>8
<1>11. g \in [0 .. PipelineLength -> SUBSET Catalog!PipelineSteps]
  BY <1>9, <1>10
<1>12. Rounds(edges, g)
  BY <1>8, <1>11 DEF Rounds
<1>. QED
  BY <1>7, <1>12

\* Everything leaves the queue only where no steps wait for each other: the first
\* of a set to leave waits for nothing of it.
LEMMA VisitedMeansNoCircle ==
    ASSUME PipelineLength \in Nat, NEW edges \in Graphs,
           Catalog!Visited(edges) = Catalog!PipelineSteps
    PROVE  Catalog!IsAcyclic(edges)
<1>1. PICK f : Rounds(edges, f) /\ Catalog!Visited(edges) = f[PipelineLength]
  BY VisitedInRounds
<1>2. ASSUME NEW S \in SUBSET Catalog!PipelineSteps, S # {}
             PROVE \E s \in S : edges[s] \cap S = {}
  <2>. DEFINE I == {i \in 1 .. PipelineLength : f[i] \cap S # {}}
  <2>1. PipelineLength \in I
    <3>0. PICK s \in S : s \in 1 .. PipelineLength
      BY <1>2 DEF Catalog!PipelineSteps
    <3>1. PipelineLength \in 1 .. PipelineLength
      BY <3>0
    <3>. QED
      BY <1>1, <1>2, <3>1
  <2>2. PICK i \in I : \A j \in I : i <= j
    BY <2>1, FirstOf
  <2>3. f[i - 1] \cap S = {}
    <3>1. CASE i = 1
      BY <1>1, <3>1 DEF Rounds
    <3>2. CASE i # 1
      <4>1. i - 1 \in 1 .. PipelineLength /\ ~(i <= i - 1)
        BY <3>2
      <4>. QED
        BY <2>2, <4>1
    <3>. QED
      BY <3>1, <3>2
  <2>4. PICK s \in S : s \in f[i]
    OBVIOUS
  <2>5. edges[s] \subseteq f[i - 1]
    BY <1>1, <2>4 DEF Rounds
  <2>. QED
    BY <2>3, <2>5
<1>. QED
  BY <1>2, OrderedHasNoCircle

\* And all of it does where the steps can be numbered: a step leaves in the round
\* of its number at the latest.
LEMMA NoCircleMeansVisited ==
    ASSUME PipelineLength \in Nat, NEW edges \in Graphs, Catalog!IsAcyclic(edges)
    PROVE  Catalog!Visited(edges) = Catalog!PipelineSteps
<1>1. PICK f : Rounds(edges, f) /\ Catalog!Visited(edges) = f[PipelineLength]
  BY VisitedInRounds
<1>2. PICK rank \in [Catalog!PipelineSteps -> Catalog!PipelineSteps] :
         \A s \in Catalog!PipelineSteps : \A t \in edges[s] : rank[t] < rank[s]
  BY DEF Catalog!IsAcyclic
<1>3. \A s \in Catalog!PipelineSteps : rank[s] \in 1 .. PipelineLength
  BY DEF Catalog!PipelineSteps
<1>. DEFINE T == {i \in 0 .. PipelineLength : \A s \in Catalog!PipelineSteps : rank[s] <= i
     => s \in f[i]}
<1>4. 0 \in T
  BY <1>3
<1>5. ASSUME NEW i \in 0 .. PipelineLength - 1, i \in T PROVE i + 1 \in T
  <2>1. ASSUME NEW s \in Catalog!PipelineSteps, rank[s] <= i + 1 PROVE s \in f[i + 1]
    <3>1. ASSUME NEW t \in edges[s] PROVE t \in f[i]
      <4>1. t \in Catalog!PipelineSteps /\ rank[t] < rank[s]
        BY <1>2 DEF Graphs
      <4>2. rank[t] <= i
        BY <1>3, <2>1, <4>1
      <4>. QED
        BY <1>5, <4>1, <4>2
    <3>2. i + 1 \in 1 .. PipelineLength /\ (i + 1) - 1 = i
      OBVIOUS
    <3>. QED
      BY <1>1, <3>1, <3>2 DEF Rounds
  <2>2. i + 1 \in 0 .. PipelineLength
    OBVIOUS
  <2>. QED
    BY <2>1, <2>2
<1>. HIDE DEF T
<1>6. \A i \in 0 .. PipelineLength - 1 : i \in T => i + 1 \in T
  BY <1>5
<1>7. PipelineLength \in T
  BY <1>4, <1>6, UpTo, PipelineLength \in 0 .. PipelineLength
<1>8. Catalog!PipelineSteps \subseteq f[PipelineLength]
  BY <1>3, <1>7 DEF T
<1>9. f[PipelineLength] \subseteq Catalog!PipelineSteps
  BY <1>1, PipelineLength \in 0 .. PipelineLength DEF Rounds
<1>. QED
  BY <1>1, <1>8, <1>9

-----------------------------------------------------------------------------
(* The search of the validator *)

Searches == [Catalog!DfsCalls -> Catalog!Findings]

\* What a loop makes of a node.
NodeDone(nodes, rec_stack, dfs, n, seen) ==
    IF n \notin nodes THEN seen
    ELSE IF n \notin seen.visited
         THEN dfs[[node |-> n, rec_stack |-> rec_stack, before |-> seen]]
    ELSE [seen EXCEPT !.cycle = @ \/ n \in rec_stack]

\* What it finds before each of them.
Loop(nodes, rec_stack, before, dfs, f) ==
    /\ f \in [0 .. PipelineLength -> Catalog!Findings]
    /\ f[0] = before
    /\ \A n \in 1 .. PipelineLength : f[n] = NodeDone(nodes, rec_stack, dfs, n, f[n - 1])

\* A loop keeps to what can be found.
LEMMA NodeDoneType ==
    ASSUME NEW nodes, NEW rec_stack \in SUBSET Catalog!PipelineSteps, NEW dfs \in Searches,
           NEW n \in Catalog!PipelineSteps, NEW seen \in Catalog!Findings
    PROVE  NodeDone(nodes, rec_stack, dfs, n, seen) \in Catalog!Findings
<1>. DEFINE call == [node |-> n, rec_stack |-> rec_stack, before |-> seen]
            closed == [seen EXCEPT !.cycle = @ \/ n \in rec_stack]
<1>1. call \in Catalog!DfsCalls
  BY DEF Catalog!DfsCalls
<1>. HIDE DEF call
<1>2. dfs[call] \in Catalog!Findings
  BY <1>1 DEF Searches
<1>3. closed \in Catalog!Findings
  BY DEF Catalog!Findings
<1>. HIDE DEF closed
<1>4. NodeDone(nodes, rec_stack, dfs, n, seen)
        = IF n \notin nodes THEN seen ELSE IF n \notin seen.visited THEN dfs[call] ELSE closed
  BY DEF NodeDone, call, closed
<1>. QED
  BY <1>2, <1>3, <1>4

\* A loop ends with what it finds after the last node.
LEMMA WalkIsLoop ==
    ASSUME PipelineLength \in Nat, NEW nodes, NEW rec_stack \in SUBSET Catalog!PipelineSteps,
           NEW before \in Catalog!Findings, NEW dfs \in Searches
    PROVE  \E f : /\ Loop(nodes, rec_stack, before, dfs, f)
                  /\ Catalog!Walk(nodes, rec_stack, before, dfs) = f[PipelineLength]
<1>. DEFINE After(n, seen) == NodeDone(nodes, rec_stack, dfs, n, seen)
            step == [n \in 1 .. PipelineLength |-> [seen \in Catalog!Findings |-> After(n,
            seen)]]
            IsLoop(r) ==
                r = [n \in 0 .. PipelineLength |-> IF n = 0 THEN before ELSE After(n, r[n - 1])]
<1>1. \A n \in 1 .. PipelineLength : \A seen \in Catalog!Findings : After(n,
      seen) \in Catalog!Findings
  BY NodeDoneType DEF Catalog!PipelineSteps
<1>2. Catalog!Walk(nodes, rec_stack, before, dfs) = (CHOOSE r : IsLoop(r))[PipelineLength]
  BY DEF Catalog!Walk, NodeDone
<1>. HIDE DEF After
<1>3. step \in [1 .. PipelineLength -> [Catalog!Findings -> Catalog!Findings]]
  BY <1>1
<1>4. \A n \in 1 .. PipelineLength : \A seen \in Catalog!Findings : step[n][seen] = After(n,
      seen)
  OBVIOUS
<1>. HIDE DEF step
<1>5. PICK f : Stepwise(Catalog!Findings, before, PipelineLength, step, f)
  BY <1>3, StepwiseExists
<1>6. ASSUME NEW n \in 0 .. PipelineLength
             PROVE f[n] = IF n = 0 THEN before ELSE After(n, f[n - 1])
  <2>1. CASE n = 0
    BY <1>5, <2>1 DEF Stepwise
  <2>2. CASE n # 0
    <3>1. n \in 1 .. PipelineLength /\ n - 1 \in 0 .. PipelineLength
      BY <2>2
    <3>2. f[n] = step[n][f[n - 1]] /\ f[n - 1] \in Catalog!Findings
      BY <1>5, <3>1 DEF Stepwise
    <3>. QED
      BY <1>4, <2>2, <3>1, <3>2
  <2>. QED
    BY <2>1, <2>2
<1>7. IsLoop(f)
  BY <1>5, <1>6 DEF Stepwise
<1>8. IsLoop(CHOOSE r : IsLoop(r))
  BY <1>7
<1>. DEFINE g == CHOOSE r : IsLoop(r)
<1>9. ASSUME NEW n \in 0 .. PipelineLength
             PROVE g[n] = IF n = 0 THEN before ELSE After(n, g[n - 1])
  BY <1>8
<1>10. g = [n \in 0 .. PipelineLength |-> g[n]]
  BY <1>8
<1>. HIDE DEF g, IsLoop
<1>11. g[0] = before
  BY <1>9
<1>12. \A n \in 1 .. PipelineLength : g[n] = After(n, g[n - 1])
  BY <1>9
<1>. DEFINE T == {n \in 0 .. PipelineLength : g[n] \in Catalog!Findings}
<1>13. 0 \in T
  BY <1>11
<1>14. ASSUME NEW n \in 0 .. PipelineLength - 1, n \in T PROVE n + 1 \in T
  <2>1. n + 1 \in 1 .. PipelineLength /\ (n + 1) - 1 = n
    OBVIOUS
  <2>2. g[n + 1] = After(n + 1, g[n]) /\ g[n] \in Catalog!Findings
    BY <1>12, <1>14, <2>1
  <2>. QED
    BY <1>1, <2>1, <2>2
<1>15. \A n \in 0 .. PipelineLength - 1 : n \in T => n + 1 \in T
  BY <1>14
<1>16. \A n \in 0 .. PipelineLength : n \in T
  <2>. HIDE DEF T
  <2>. QED
    BY <1>13, <1>15, UpTo
<1>17. g \in [0 .. PipelineLength -> Catalog!Findings]
  BY <1>10, <1>16
<1>18. Loop(nodes, rec_stack, before, dfs, g)
  BY <1>11, <1>12, <1>17 DEF Loop, After
<1>. QED
  BY <1>2, <1>18 DEF g

\* So it finds something that can be found.
LEMMA WalkType ==
    ASSUME PipelineLength \in Nat, NEW nodes, NEW rec_stack \in SUBSET Catalog!PipelineSteps,
           NEW before \in Catalog!Findings, NEW dfs \in Searches
    PROVE  Catalog!Walk(nodes, rec_stack, before, dfs) \in Catalog!Findings
<1>1. PICK f : /\ Loop(nodes, rec_stack, before, dfs, f)
               /\ Catalog!Walk(nodes, rec_stack, before, dfs) = f[PipelineLength]
  BY WalkIsLoop
<1>. QED
  BY <1>1, PipelineLength \in 0 .. PipelineLength DEF Loop

\* A call of dfs: its own node is visited before those it leads to.
Entered(graph, dfs, call) ==
    Catalog!Walk(graph[call.node], call.rec_stack \cup {call.node},
         [call.before EXCEPT !.visited = @ \cup {call.node}], dfs)

\* What the calls find, by how deep they may go on.
Levels(graph, D) ==
    /\ D \in [0 .. PipelineLength -> Searches]
    /\ \A call \in Catalog!DfsCalls : D[0][call] = call.before
    /\ \A k \in 1 .. PipelineLength : \A call \in Catalog!DfsCalls : D[k][call] = Entered(graph,
       D[k - 1], call)

\* A call finds something that can be found.
LEMMA EnteredType ==
    ASSUME PipelineLength \in Nat, NEW graph \in Graphs, NEW dfs \in Searches,
           NEW call \in Catalog!DfsCalls
    PROVE  Entered(graph, dfs, call) \in Catalog!Findings
<1>1. call.node \in Catalog!PipelineSteps /\ call.rec_stack \in SUBSET Catalog!PipelineSteps
      /\ call.before \in Catalog!Findings
  BY DEF Catalog!DfsCalls
<1>. DEFINE before == [call.before EXCEPT !.visited = @ \cup {call.node}]
            rec_stack == call.rec_stack \cup {call.node}
<1>2. before \in Catalog!Findings
  BY <1>1 DEF Catalog!Findings
<1>3. rec_stack \in SUBSET Catalog!PipelineSteps
  BY <1>1
<1>. HIDE DEF before, rec_stack
<1>4. Catalog!Walk(graph[call.node], rec_stack, before, dfs) \in Catalog!Findings
  BY <1>2, <1>3, WalkType
<1>. QED
  BY <1>4 DEF Entered, before, rec_stack

\* The search is what the calls find that may go as deep as there are steps.
LEMMA SearchInLevels ==
    ASSUME PipelineLength \in Nat, NEW graph \in Graphs
    PROVE  \E D : Levels(graph, D) /\ Catalog!Search(graph) = D[PipelineLength]
<1>. DEFINE After(dfs) == [call \in Catalog!DfsCalls |-> Entered(graph, dfs, call)]
            Start == [call \in Catalog!DfsCalls |-> call.before]
            step == [k \in 1 .. PipelineLength |-> [dfs \in Searches |-> After(dfs)]]
            IsSearch(r) == r = [depth \in 0 .. PipelineLength |-> [call \in Catalog!DfsCalls |->
                              IF depth = 0 THEN call.before
                              ELSE Entered(graph, r[depth - 1], call)]]
<1>1. \A dfs \in Searches : After(dfs) \in Searches
  BY EnteredType DEF Searches
<1>2. Start \in Searches
  BY DEF Searches, Catalog!DfsCalls
<1>3. Catalog!Search(graph) = (CHOOSE r : IsSearch(r))[PipelineLength]
  BY DEF Catalog!Search, Entered
<1>4. \A dfs : \A call \in Catalog!DfsCalls : After(dfs)[call] = Entered(graph, dfs, call)
  OBVIOUS
<1>5. \A call \in Catalog!DfsCalls : Start[call] = call.before
  OBVIOUS
<1>6. \A dfs, r : \A k \in 0 .. PipelineLength : k # 0 /\ r[k - 1] = dfs =>
        After(dfs) = [call \in Catalog!DfsCalls |-> IF k = 0 THEN call.before
                                         ELSE Entered(graph, r[k - 1], call)]
  OBVIOUS
<1>. DEFINE Deeper(k, r) == IF k = 0 THEN Start ELSE After(r[k - 1])
<1>7. ASSUME NEW k \in 0 .. PipelineLength, NEW r
      PROVE  Deeper(k, r) = [call \in Catalog!DfsCalls |-> IF k = 0 THEN call.before
                                                ELSE Entered(graph, r[k - 1], call)]
  BY <1>6
<1>8. \A r : IsSearch(r) <=> r = [k \in 0 .. PipelineLength |-> Deeper(k, r)]
  <2>. HIDE DEF Deeper
  <2>. QED
    BY <1>7
<1>. HIDE DEF After, Start, IsSearch
<1>9. step \in [1 .. PipelineLength -> [Searches -> Searches]]
  BY <1>1
<1>10. \A k \in 1 .. PipelineLength : \A dfs \in Searches : step[k][dfs] = After(dfs)
  OBVIOUS
<1>. HIDE DEF step
<1>11. PICK D : Stepwise(Searches, Start, PipelineLength, step, D)
  BY <1>2, <1>9, StepwiseExists
<1>12. ASSUME NEW k \in 0 .. PipelineLength PROVE D[k] = Deeper(k, D)
  <2>1. CASE k = 0
    BY <1>11, <2>1 DEF Stepwise
  <2>2. CASE k # 0
    <3>1. k \in 1 .. PipelineLength /\ k - 1 \in 0 .. PipelineLength
      BY <2>2
    <3>2. D[k] = step[k][D[k - 1]] /\ D[k - 1] \in Searches
      BY <1>11, <3>1 DEF Stepwise
    <3>. QED
      BY <1>10, <2>2, <3>1, <3>2
  <2>. QED
    BY <2>1, <2>2
<1>13. D = [k \in 0 .. PipelineLength |-> Deeper(k, D)]
  <2>. HIDE DEF Deeper
  <2>. QED
    BY <1>11, <1>12 DEF Stepwise
<1>14. IsSearch(CHOOSE r : IsSearch(r))
  BY <1>8, <1>13
<1>. DEFINE g == CHOOSE r : IsSearch(r)
<1>15. g = [k \in 0 .. PipelineLength |-> Deeper(k, g)]
  BY <1>8, <1>14
<1>. HIDE DEF g
<1>16. g[0] = Start /\ \A k \in 1 .. PipelineLength : g[k] = After(g[k - 1])
  BY <1>15
<1>. HIDE DEF Deeper
<1>. DEFINE T == {k \in 0 .. PipelineLength : g[k] \in Searches}
<1>17. 0 \in T
  BY <1>2, <1>16
<1>18. ASSUME NEW k \in 0 .. PipelineLength - 1, k \in T PROVE k + 1 \in T
  <2>1. k + 1 \in 1 .. PipelineLength /\ (k + 1) - 1 = k
    OBVIOUS
  <2>2. g[k + 1] = After(g[k]) /\ g[k] \in Searches
    BY <1>16, <1>18, <2>1
  <2>. QED
    BY <1>1, <2>1, <2>2
<1>19. \A k \in 0 .. PipelineLength - 1 : k \in T => k + 1 \in T
  BY <1>18
<1>20. \A k \in 0 .. PipelineLength : k \in T
  <2>. HIDE DEF T
  <2>. QED
    BY <1>17, <1>19, UpTo
<1>21. g \in [0 .. PipelineLength -> Searches]
  BY <1>15, <1>20
<1>22. Levels(graph, g)
  BY <1>4, <1>5, <1>16, <1>21 DEF Levels
<1>. QED
  BY <1>3, <1>22 DEF g

-----------------------------------------------------------------------------
(* What finds nothing has looked everywhere *)

\* From one state of the search to a later one: no node is forgotten, no circle
\* either, and while none is found the nodes that are done stay in order.
Onwards(graph, rec_stack, before, after) ==
    /\ before.visited \subseteq after.visited
    /\ before.cycle => after.cycle
    /\ ~after.cycle /\ Ordered(graph, before.visited \ rec_stack)
         => Ordered(graph, after.visited \ rec_stack)

\* What is left to be visited.
Left(seen) == Cardinality(Catalog!PipelineSteps \ seen.visited)

\* A call for a node that was not visited visits it and goes onwards, provided
\* no more than k nodes are left.
Explores(graph, dfs, k) ==
    \A call \in Catalog!DfsCalls :
        /\ call.node \notin call.before.visited
        /\ call.rec_stack \subseteq call.before.visited
        /\ Left(call.before) <= k
        => /\ call.node \in dfs[call].visited
           /\ Onwards(graph, call.rec_stack, call.before, dfs[call])

\* Twice onwards is onwards.
LEMMA OnwardsIsTransitive ==
    ASSUME NEW graph, NEW rec_stack, NEW a, NEW b, NEW c,
           Onwards(graph, rec_stack, a, b), Onwards(graph, rec_stack, b, c)
    PROVE  Onwards(graph, rec_stack, a, c)
BY DEF Onwards

\* The more is visited, the less is left.
LEMMA LeftIsLess ==
    ASSUME PipelineLength \in Nat, NEW a \in Catalog!Findings, NEW b \in Catalog!Findings,
           a.visited \subseteq b.visited
    PROVE  Left(a) \in Nat /\ Left(b) \in Nat /\ Left(b) <= Left(a)
<1>. DEFINE A == Catalog!PipelineSteps \ a.visited
            B == Catalog!PipelineSteps \ b.visited
<1>1. IsFiniteSet(Catalog!PipelineSteps)
  BY StepsAreFinite
<1>2. A \in SUBSET Catalog!PipelineSteps /\ B \in SUBSET A
  OBVIOUS
<1>3. IsFiniteSet(A)
  BY <1>1, <1>2, FS_Subset
<1>4. IsFiniteSet(B) /\ Cardinality(B) <= Cardinality(A)
  BY <1>2, <1>3, FS_Subset
<1>5. Cardinality(A) \in Nat /\ Cardinality(B) \in Nat
  BY <1>3, <1>4, FS_CardinalityType
<1>. QED
  BY <1>4, <1>5 DEF Left

\* One node of a loop.
LEMMA NodeIsExplored ==
    ASSUME NEW graph, NEW nodes, NEW rec_stack \in SUBSET Catalog!PipelineSteps,
           NEW dfs \in Searches, NEW k \in Nat, Explores(graph, dfs, k),
           NEW n \in Catalog!PipelineSteps, NEW seen \in Catalog!Findings,
           rec_stack \subseteq seen.visited, Left(seen) <= k
    PROVE  LET after == NodeDone(nodes, rec_stack, dfs, n, seen)
           IN  /\ Onwards(graph, rec_stack, seen, after)
               /\ n \in nodes => n \in after.visited
               /\ n \in nodes /\ ~after.cycle => n \notin rec_stack
<1>. DEFINE after == NodeDone(nodes, rec_stack, dfs, n, seen)
            call == [node |-> n, rec_stack |-> rec_stack, before |-> seen]
            closed == [seen EXCEPT !.cycle = @ \/ n \in rec_stack]
<1>1. CASE n \notin nodes
  <2>1. after = seen
    BY <1>1 DEF NodeDone
  <2>. QED
    BY <1>1, <2>1 DEF Onwards
<1>2. CASE n \in nodes /\ n \notin seen.visited
  <2>1. call \in Catalog!DfsCalls /\ call.node = n /\ call.rec_stack = rec_stack
        /\ call.before = seen
    BY DEF Catalog!DfsCalls
  <2>2. after = dfs[call]
    BY <1>2 DEF NodeDone
  <2>. HIDE DEF call, after
  <2>3. n \in after.visited /\ Onwards(graph, rec_stack, seen, after)
    BY <1>2, <2>1, <2>2 DEF Explores
  <2>. QED
    BY <1>2, <2>3 DEF after
<1>3. CASE n \in nodes /\ n \in seen.visited
  <2>1. after = closed
    BY <1>3 DEF NodeDone
  <2>2. closed.visited = seen.visited /\ closed.cycle = (seen.cycle \/ n \in rec_stack)
    BY DEF Catalog!Findings
  <2>. HIDE DEF closed, after
  <2>3. Onwards(graph, rec_stack, seen, after)
    BY <2>1, <2>2 DEF Onwards
  <2>. QED
    BY <1>3, <2>1, <2>2, <2>3 DEF after
<1>. QED
  BY <1>1, <1>2, <1>3

\* What a loop over nodes does: all of them are visited, and while no circle is
\* found none is in the recursion stack.
Covers(graph, nodes, rec_stack, before, after) ==
    /\ Onwards(graph, rec_stack, before, after)
    /\ nodes \subseteq after.visited
    /\ ~after.cycle => nodes \cap rec_stack = {}

\* A loop does, when its calls explore.
LEMMA WalkExplores ==
    ASSUME PipelineLength \in Nat, NEW graph, NEW nodes \in SUBSET Catalog!PipelineSteps,
           NEW rec_stack \in SUBSET Catalog!PipelineSteps, NEW before \in Catalog!Findings,
           NEW dfs \in Searches, NEW k \in Nat, Explores(graph, dfs, k),
           rec_stack \subseteq before.visited, Left(before) <= k
    PROVE  Covers(graph, nodes, rec_stack, before, Catalog!Walk(nodes, rec_stack, before, dfs))
<1>1. PICK f : /\ Loop(nodes, rec_stack, before, dfs, f)
               /\ Catalog!Walk(nodes, rec_stack, before, dfs) = f[PipelineLength]
  BY WalkIsLoop
<1>. DEFINE Good(m) == /\ Onwards(graph, rec_stack, before, f[m])
                       /\ nodes \cap (1 .. m) \subseteq f[m].visited
                       /\ ~f[m].cycle => nodes \cap (1 .. m) \cap rec_stack = {}
            T == {m \in 0 .. PipelineLength : Good(m)}
<1>2. 0 \in T
  <2>1. f[0] = before
    BY <1>1 DEF Loop
  <2>2. Onwards(graph, rec_stack, before, before)
    BY DEF Onwards
  <2>3. nodes \cap (1 .. 0) = {}
    OBVIOUS
  <2>. QED
    BY <2>1, <2>2, <2>3
<1>3. ASSUME NEW m \in 0 .. PipelineLength - 1, m \in T PROVE m + 1 \in T
  <2>. DEFINE seen == f[m]  n == m + 1  after == f[n]
  <2>1. n \in 1 .. PipelineLength /\ n - 1 = m /\ m \in 0 .. PipelineLength
        /\ n \in 0 .. PipelineLength
    OBVIOUS
  <2>2. seen \in Catalog!Findings /\ after \in Catalog!Findings /\ n \in Catalog!PipelineSteps
    BY <1>1, <2>1 DEF Loop, Catalog!PipelineSteps
  <2>3. after = NodeDone(nodes, rec_stack, dfs, n, seen)
    BY <1>1, <2>1 DEF Loop
  <2>4. Good(m)
    BY <1>3
  <2>. HIDE DEF seen, after
  <2>5. /\ Onwards(graph, rec_stack, before, seen)
        /\ nodes \cap (1 .. m) \subseteq seen.visited
        /\ ~seen.cycle => nodes \cap (1 .. m) \cap rec_stack = {}
    BY <2>4 DEF seen
  <2>6. before.visited \subseteq seen.visited
    BY <2>5 DEF Onwards
  <2>7. Left(seen) <= k
    <3>1. Left(seen) <= Left(before) /\ Left(seen) \in Nat /\ Left(before) \in Nat
      BY <2>2, <2>6, LeftIsLess
    <3>. QED
      BY <3>1
  <2>8. rec_stack \subseteq seen.visited
    BY <2>6
  <2>9. /\ Onwards(graph, rec_stack, seen, after)
        /\ n \in nodes => n \in after.visited
        /\ n \in nodes /\ ~after.cycle => n \notin rec_stack
    BY <2>2, <2>3, <2>7, <2>8, NodeIsExplored
  <2>10. Onwards(graph, rec_stack, before, after)
    BY <2>5, <2>9, OnwardsIsTransitive
  <2>11. seen.visited \subseteq after.visited /\ (seen.cycle => after.cycle)
    BY <2>9 DEF Onwards
  <2>12. 1 .. n = (1 .. m) \cup {n}
    BY <2>1
  <2>13. nodes \cap (1 .. n) \subseteq after.visited
    BY <2>5, <2>9, <2>11, <2>12
  <2>14. ~after.cycle => nodes \cap (1 .. n) \cap rec_stack = {}
    BY <2>5, <2>9, <2>11, <2>12
  <2>15. Good(n)
    BY <2>10, <2>13, <2>14 DEF after
  <2>. QED
    BY <2>1, <2>15
<1>. HIDE DEF T
<1>4. \A m \in 0 .. PipelineLength - 1 : m \in T => m + 1 \in T
  BY <1>3
<1>5. PipelineLength \in T
  BY <1>2, <1>4, UpTo, PipelineLength \in 0 .. PipelineLength
<1>6. Good(PipelineLength)
  BY <1>5 DEF T
<1>7. nodes \cap (1 .. PipelineLength) = nodes
  BY DEF Catalog!PipelineSteps
<1>. QED
  BY <1>1, <1>6, <1>7 DEF Covers

\* The search of a call: everything the node leads to is done before the node,
\* so that the node can be added to the order.
LEMMA EnteredExplores ==
    ASSUME PipelineLength \in Nat, NEW graph \in Graphs, NEW dfs \in Searches, NEW k \in Nat,
           Explores(graph, dfs, k), NEW call \in Catalog!DfsCalls,
           call.node \notin call.before.visited, call.rec_stack \subseteq call.before.visited,
           Left(call.before) <= k + 1
    PROVE  LET after == Entered(graph, dfs, call)
           IN  /\ call.node \in after.visited
               /\ Onwards(graph, call.rec_stack, call.before, after)
<1>. DEFINE s == call.node  rec == call.rec_stack  before == call.before
            inner == rec \cup {s}
            seen == [before EXCEPT !.visited = @ \cup {s}]
            after == Catalog!Walk(graph[s], inner, seen, dfs)
<1>1. s \in Catalog!PipelineSteps /\ rec \in SUBSET Catalog!PipelineSteps
      /\ before \in Catalog!Findings
  BY DEF Catalog!DfsCalls
<1>2. seen \in Catalog!Findings /\ seen.visited = before.visited \cup {s}
      /\ seen.cycle = before.cycle
  BY <1>1 DEF Catalog!Findings
<1>3. inner \in SUBSET Catalog!PipelineSteps /\ graph[s] \in SUBSET Catalog!PipelineSteps
  BY <1>1 DEF Graphs
<1>4. Entered(graph, dfs, call) = after
  BY DEF Entered
<1>5. s \notin before.visited /\ rec \subseteq before.visited /\ Left(before) <= k + 1
  OBVIOUS
<1>. HIDE DEF s, rec, before, seen, after
<1>6. Left(seen) <= k
  <2>. DEFINE B == Catalog!PipelineSteps \ before.visited
  <2>1. IsFiniteSet(B)
    <3>1. IsFiniteSet(Catalog!PipelineSteps) /\ B \in SUBSET Catalog!PipelineSteps
      BY StepsAreFinite
    <3>. QED
      BY <3>1, FS_Subset
  <2>2. s \in B /\ Catalog!PipelineSteps \ seen.visited = B \ {s}
    BY <1>1, <1>2, <1>5
  <2>. HIDE DEF B
  <2>3. Cardinality(B) \in Nat /\ Cardinality(B \ {s}) = Cardinality(B) - 1
    BY <2>1, <2>2, FS_RemoveElement, FS_CardinalityType
  <2>4. Left(before) = Cardinality(B) /\ Left(seen) = Cardinality(B \ {s})
    BY <2>2 DEF Left, B
  <2>. QED
    BY <1>5, <2>3, <2>4
<1>7. inner \subseteq seen.visited
  BY <1>2, <1>5
<1>8. /\ Onwards(graph, inner, seen, after)
      /\ graph[s] \subseteq after.visited
      /\ ~after.cycle => graph[s] \cap inner = {}
  <2>. DEFINE nodes == graph[s]
  <2>1. nodes \in SUBSET Catalog!PipelineSteps /\ after = Catalog!Walk(nodes, inner, seen, dfs)
    BY <1>3 DEF after
  <2>. HIDE DEF inner, nodes
  <2>2. Covers(graph, nodes, inner, seen, Catalog!Walk(nodes, inner, seen, dfs))
    BY <1>2, <1>3, <1>6, <1>7, <2>1, WalkExplores
  <2>. QED
    BY <2>1, <2>2 DEF nodes, Covers
<1>9. s \in after.visited /\ before.visited \subseteq after.visited
      /\ (before.cycle => after.cycle)
  BY <1>2, <1>8 DEF Onwards
<1>10. ASSUME ~after.cycle, Ordered(graph, before.visited \ rec)
       PROVE  Ordered(graph, after.visited \ rec)
  <2>1. seen.visited \ inner = before.visited \ rec
    BY <1>2, <1>5
  <2>2. Ordered(graph, after.visited \ inner)
    BY <1>8, <1>10, <2>1 DEF Onwards
  <2>3. graph[s] \subseteq after.visited \ inner
    BY <1>8, <1>10
  <2>4. after.visited \ rec = (after.visited \ inner) \cup {s}
    BY <1>5, <1>9
  <2>5. Ordered(graph, (after.visited \ inner) \cup {s})
    BY <2>2, <2>3, OrderedWithOneMore
  <2>. QED
    BY <2>4, <2>5
<1>11. Onwards(graph, rec, before, after)
  BY <1>9, <1>10 DEF Onwards
<1>. QED
  BY <1>4, <1>9, <1>11 DEF s, rec, before

\* The whole search, to any depth.
LEMMA LevelsExplore ==
    ASSUME PipelineLength \in Nat, NEW graph \in Graphs, NEW D, Levels(graph, D)
    PROVE  \A k \in 0 .. PipelineLength : Explores(graph, D[k], k)
<1>. DEFINE T == {k \in 0 .. PipelineLength : Explores(graph, D[k], k)}
<1>1. 0 \in T
  <2>1. ASSUME NEW call \in Catalog!DfsCalls, call.node \notin call.before.visited,
               Left(call.before) <= 0
        PROVE  FALSE
    <3>. DEFINE B == Catalog!PipelineSteps \ call.before.visited
    <3>1. call.node \in B
      BY <2>1 DEF Catalog!DfsCalls
    <3>2. IsFiniteSet(B)
      <4>1. IsFiniteSet(Catalog!PipelineSteps) /\ B \in SUBSET Catalog!PipelineSteps
        BY StepsAreFinite
      <4>. QED
        BY <4>1, FS_Subset
    <3>3. Left(call.before) = Cardinality(B)
      BY DEF Left
    <3>. HIDE DEF B
    <3>4. Cardinality(B) \in Nat /\ Cardinality(B) # 0
      BY <3>1, <3>2, FS_CardinalityType, FS_EmptySet
    <3>. QED
      BY <2>1, <3>3, <3>4
  <2>. QED
    BY <2>1 DEF Explores
<1>2. ASSUME NEW k \in 0 .. PipelineLength - 1, k \in T PROVE k + 1 \in T
  <2>1. k + 1 \in 1 .. PipelineLength /\ (k + 1) - 1 = k /\ k \in Nat
        /\ k \in 0 .. PipelineLength /\ k + 1 \in 0 .. PipelineLength
    OBVIOUS
  <2>2. D[k] \in Searches /\ Explores(graph, D[k], k)
    BY <1>2, <2>1 DEF Levels
  <2>3. \A call \in Catalog!DfsCalls : D[k + 1][call] = Entered(graph, D[k], call)
    BY <2>1 DEF Levels
  <2>4. ASSUME NEW call \in Catalog!DfsCalls, call.node \notin call.before.visited,
               call.rec_stack \subseteq call.before.visited, Left(call.before) <= k + 1
        PROVE  /\ call.node \in Entered(graph, D[k], call).visited
               /\ Onwards(graph, call.rec_stack, call.before, Entered(graph, D[k], call))
    BY <2>1, <2>2, <2>4, EnteredExplores
  <2>5. Explores(graph, D[k + 1], k + 1)
    BY <2>3, <2>4 DEF Explores
  <2>. QED
    BY <2>1, <2>5
<1>. HIDE DEF T
<1>3. \A k \in 0 .. PipelineLength - 1 : k \in T => k + 1 \in T
  BY <1>2
<1>4. \A k \in 0 .. PipelineLength : k \in T
  BY <1>1, <1>3, UpTo
<1>. QED
  BY <1>4 DEF T

\* Where the validator finds no circle there is none.
LEMMA NothingFoundMeansNoCircle ==
    ASSUME PipelineLength \in Nat, NEW graph \in Graphs, ~Catalog!FindsCycle(graph)
    PROVE  Catalog!IsAcyclic(graph)
<1>1. PICK D : Levels(graph, D) /\ Catalog!Search(graph) = D[PipelineLength]
  BY SearchInLevels
<1>2. PipelineLength \in 0 .. PipelineLength
  OBVIOUS
<1>3. Catalog!Search(graph) \in Searches
      /\ Explores(graph, Catalog!Search(graph), PipelineLength)
  BY <1>1, <1>2, LevelsExplore DEF Levels
<1>. DEFINE start == [visited |-> {}, cycle |-> FALSE]
            end == Catalog!Walk(Catalog!PipelineSteps, {}, start, Catalog!Search(graph))
<1>4. start \in Catalog!Findings /\ start.visited = {}
  BY DEF Catalog!Findings
<1>5. ~end.cycle
  BY DEF Catalog!FindsCycle
<1>. HIDE DEF start, end
<1>6. Left(start) <= PipelineLength
  <2>1. Catalog!PipelineSteps \ start.visited = Catalog!PipelineSteps
    BY <1>4
  <2>2. Cardinality(Catalog!PipelineSteps) = PipelineLength
    BY StepsAreFinite
  <2>. QED
    BY <2>1, <2>2 DEF Left
<1>7. Onwards(graph, {}, start, end) /\ Catalog!PipelineSteps \subseteq end.visited
  <2>1. Covers(graph, Catalog!PipelineSteps, {}, start, end)
    BY <1>3, <1>4, <1>6, WalkExplores DEF end
  <2>. QED
    BY <2>1 DEF Covers
<1>8. Ordered(graph, start.visited \ {})
  BY <1>4 DEF Ordered
<1>9. Ordered(graph, end.visited \ {})
  BY <1>5, <1>7, <1>8 DEF Onwards
<1>10. \A S \in SUBSET Catalog!PipelineSteps : S # {} => \E s \in S : graph[s] \cap S = {}
  BY <1>7, <1>9 DEF Ordered
<1>. QED
  BY <1>10, OrderedHasNoCircle

-----------------------------------------------------------------------------
(* What is found is there *)

\* The steps of the recursion stack have higher numbers than a node: a call for
\* it finds no circle.
Spares(rank, dfs) ==
    \A call \in Catalog!DfsCalls :
        /\ \A t \in call.rec_stack : rank[call.node] < rank[t]
        /\ ~call.before.cycle
        => ~dfs[call].cycle

\* A loop over nodes with lower numbers than the recursion stack finds none.
LEMMA WalkSpares ==
    ASSUME PipelineLength \in Nat,
           NEW rank \in [Catalog!PipelineSteps -> Catalog!PipelineSteps],
           NEW nodes \in SUBSET Catalog!PipelineSteps,
           NEW rec_stack \in SUBSET Catalog!PipelineSteps,
           NEW before \in Catalog!Findings, NEW dfs \in Searches, Spares(rank, dfs),
           \A s \in nodes : \A t \in rec_stack : rank[s] < rank[t], ~before.cycle
    PROVE  ~Catalog!Walk(nodes, rec_stack, before, dfs).cycle
<1>1. PICK f : /\ Loop(nodes, rec_stack, before, dfs, f)
               /\ Catalog!Walk(nodes, rec_stack, before, dfs) = f[PipelineLength]
  BY WalkIsLoop
<1>. DEFINE T == {m \in 0 .. PipelineLength : ~f[m].cycle}
<1>2. 0 \in T
  BY <1>1 DEF Loop
<1>3. ASSUME NEW m \in 0 .. PipelineLength - 1, m \in T PROVE m + 1 \in T
  <2>. DEFINE seen == f[m]  n == m + 1  after == f[n]
              call == [node |-> n, rec_stack |-> rec_stack, before |-> seen]
              closed == [seen EXCEPT !.cycle = @ \/ n \in rec_stack]
  <2>1. n \in 1 .. PipelineLength /\ n - 1 = m /\ m \in 0 .. PipelineLength
        /\ n \in 0 .. PipelineLength /\ n \in Catalog!PipelineSteps
    BY DEF Catalog!PipelineSteps
  <2>2. seen \in Catalog!Findings /\ after = NodeDone(nodes, rec_stack, dfs, n, seen)
    BY <1>1, <2>1 DEF Loop
  <2>3. ~seen.cycle
    BY <1>3
  <2>4. ~after.cycle
    <3>. HIDE DEF seen, n, after
    <3>1. CASE n \notin nodes
      BY <2>2, <2>3, <3>1 DEF NodeDone
    <3>2. CASE n \in nodes /\ n \notin seen.visited
      <4>1. call \in Catalog!DfsCalls /\ call.node = n /\ call.rec_stack = rec_stack
            /\ call.before = seen
        BY <2>1, <2>2 DEF Catalog!DfsCalls
      <4>2. after = dfs[call]
        BY <2>2, <3>2 DEF NodeDone
      <4>. HIDE DEF call
      <4>. QED
        BY <2>3, <3>2, <4>1, <4>2 DEF Spares
    <3>3. CASE n \in nodes /\ n \in seen.visited
      <4>1. after = closed
        BY <2>2, <3>3 DEF NodeDone
      <4>2. closed.cycle = (seen.cycle \/ n \in rec_stack)
        BY <2>2 DEF Catalog!Findings
      <4>3. n \notin rec_stack
        <5>1. rank[n] \in Catalog!PipelineSteps
          BY <2>1
        <5>2. ~(rank[n] < rank[n])
          BY <5>1 DEF Catalog!PipelineSteps
        <5>. QED
          BY <3>3, <5>2
      <4>. HIDE DEF closed
      <4>. QED
        BY <2>3, <4>1, <4>2, <4>3
    <3>. QED
      BY <3>1, <3>2, <3>3
  <2>. QED
    BY <2>1, <2>4
<1>. HIDE DEF T
<1>4. \A m \in 0 .. PipelineLength - 1 : m \in T => m + 1 \in T
  BY <1>3
<1>5. PipelineLength \in T
  BY <1>2, <1>4, UpTo, PipelineLength \in 0 .. PipelineLength
<1>. QED
  BY <1>1, <1>5 DEF T

\* Nor does the whole search, whose calls go down the numbers.
LEMMA LevelsSpare ==
    ASSUME PipelineLength \in Nat, NEW graph \in Graphs, NEW D, Levels(graph, D),
           NEW rank \in [Catalog!PipelineSteps -> Catalog!PipelineSteps],
           \A s \in Catalog!PipelineSteps : \A t \in graph[s] : rank[t] < rank[s]
    PROVE  \A k \in 0 .. PipelineLength : Spares(rank, D[k])
<1>. DEFINE T == {k \in 0 .. PipelineLength : Spares(rank, D[k])}
<1>1. 0 \in T
  BY DEF Levels, Spares
<1>2. ASSUME NEW k \in 0 .. PipelineLength - 1, k \in T PROVE k + 1 \in T
  <2>1. k + 1 \in 1 .. PipelineLength /\ (k + 1) - 1 = k /\ k \in 0 .. PipelineLength
        /\ k + 1 \in 0 .. PipelineLength
    OBVIOUS
  <2>. DEFINE dfs == D[k]
  <2>2. dfs \in Searches /\ Spares(rank, dfs)
    BY <1>2, <2>1 DEF Levels
  <2>3. \A call \in Catalog!DfsCalls : D[k + 1][call] = Entered(graph, dfs, call)
    BY <2>1 DEF Levels
  <2>. HIDE DEF dfs
  <2>4. ASSUME NEW call \in Catalog!DfsCalls, ~call.before.cycle,
               \A t \in call.rec_stack : rank[call.node] < rank[t]
        PROVE  ~Entered(graph, dfs, call).cycle
    <3>. DEFINE s == call.node  rec == call.rec_stack \cup {s}  nodes == graph[s]
                seen == [call.before EXCEPT !.visited = @ \cup {s}]
    <3>1. s \in Catalog!PipelineSteps /\ call.rec_stack \in SUBSET Catalog!PipelineSteps
          /\ call.before \in Catalog!Findings
      BY DEF Catalog!DfsCalls
    <3>2. seen \in Catalog!Findings /\ ~seen.cycle
      BY <2>4, <3>1 DEF Catalog!Findings
    <3>3. rec \in SUBSET Catalog!PipelineSteps /\ nodes \in SUBSET Catalog!PipelineSteps
      BY <3>1 DEF Graphs
    <3>4. ASSUME NEW t \in nodes, NEW u \in rec PROVE rank[t] < rank[u]
      <4>1. rank[t] < rank[s] /\ t \in Catalog!PipelineSteps /\ u \in Catalog!PipelineSteps
        BY <3>1, <3>3
      <4>2. u = s \/ rank[s] < rank[u]
        BY <2>4
      <4>3. rank[t] \in Int /\ rank[s] \in Int /\ rank[u] \in Int
        <5>1. rank[t] \in Catalog!PipelineSteps /\ rank[s] \in Catalog!PipelineSteps
              /\ rank[u] \in Catalog!PipelineSteps
          BY <3>1, <4>1
        <5>. QED
          BY <5>1 DEF Catalog!PipelineSteps
      <4>. QED
        BY <4>1, <4>2, <4>3
    <3>5. Entered(graph, dfs, call) = Catalog!Walk(nodes, rec, seen, dfs)
      BY DEF Entered
    <3>. HIDE DEF s, rec, nodes, seen
    <3>6. ~Catalog!Walk(nodes, rec, seen, dfs).cycle
      BY <2>2, <3>2, <3>3, <3>4, WalkSpares
    <3>. QED
      BY <3>5, <3>6
  <2>5. Spares(rank, D[k + 1])
    BY <2>3, <2>4 DEF Spares
  <2>. QED
    BY <2>1, <2>5
<1>. HIDE DEF T
<1>3. \A k \in 0 .. PipelineLength - 1 : k \in T => k + 1 \in T
  BY <1>2
<1>4. \A k \in 0 .. PipelineLength : k \in T
  BY <1>1, <1>3, UpTo
<1>. QED
  BY <1>4 DEF T

\* Where the validator finds a circle there is one.
LEMMA SomethingFoundMeansCircle ==
    ASSUME PipelineLength \in Nat, NEW graph \in Graphs, Catalog!IsAcyclic(graph)
    PROVE  ~Catalog!FindsCycle(graph)
<1>1. PICK rank \in [Catalog!PipelineSteps -> Catalog!PipelineSteps] :
         \A s \in Catalog!PipelineSteps : \A t \in graph[s] : rank[t] < rank[s]
  BY DEF Catalog!IsAcyclic
<1>2. PICK D : Levels(graph, D) /\ Catalog!Search(graph) = D[PipelineLength]
  BY SearchInLevels
<1>3. PipelineLength \in 0 .. PipelineLength
  OBVIOUS
<1>4. \A k \in 0 .. PipelineLength : Spares(rank, D[k])
  BY <1>1, <1>2, LevelsSpare
<1>5. Catalog!Search(graph) \in Searches /\ Spares(rank, Catalog!Search(graph))
  BY <1>2, <1>3, <1>4 DEF Levels
<1>. DEFINE start == [visited |-> {}, cycle |-> FALSE]
            none == {}
<1>6. start \in Catalog!Findings /\ ~start.cycle
  BY DEF Catalog!Findings
<1>7. none \in SUBSET Catalog!PipelineSteps
      /\ \A s \in Catalog!PipelineSteps : \A t \in none : rank[s] < rank[t]
  OBVIOUS
<1>8. Catalog!FindsCycle(graph) = Catalog!Walk(Catalog!PipelineSteps, none, start,
      Catalog!Search(graph)).cycle
  BY DEF Catalog!FindsCycle
<1>. HIDE DEF start, none
<1>9. ~Catalog!Walk(Catalog!PipelineSteps, none, start, Catalog!Search(graph)).cycle
  BY <1>5, <1>6, <1>7, WalkSpares
<1>. QED
  BY <1>8, <1>9

-----------------------------------------------------------------------------
(* The three graphs of a definition *)

\* A graph with fewer edges has no more circles.
LEMMA FewerEdges ==
    ASSUME NEW graph, NEW less, Catalog!IsAcyclic(graph),
           \A s \in Catalog!PipelineSteps : less[s] \subseteq graph[s]
    PROVE  Catalog!IsAcyclic(less)
BY DEF Catalog!IsAcyclic

\* The greatest and the least of the only member of a set of numbers.
LEMMA OnlyOne ==
    ASSUME NEW m \in Int, NEW S, m \in S, \A x \in S : x \in Int
    PROVE  /\ (\A x \in S : x <= m) => Catalog!Max(S) = m
           /\ (\A x \in S : m <= x) => Catalog!Min(S) = m
<1>1. ASSUME \A x \in S : x <= m PROVE Catalog!Max(S) = m
  <2>1. \E x \in S : \A y \in S : x >= y
    BY <1>1
  <2>. DEFINE x == Catalog!Max(S)
  <2>2. x \in S /\ \A y \in S : x >= y
    BY <2>1, Zenon DEF Catalog!Max
  <2>. HIDE DEF x
  <2>3. x <= m /\ x >= m /\ x \in Int
    BY <1>1, <2>2
  <2>4. x = m
    BY <2>3
  <2>. QED
    BY <2>4 DEF x
<1>2. ASSUME \A x \in S : m <= x PROVE Catalog!Min(S) = m
  <2>1. \E x \in S : \A y \in S : x <= y
    BY <1>2
  <2>. DEFINE x == Catalog!Min(S)
  <2>2. x \in S /\ \A y \in S : x <= y
    BY <2>1, Zenon DEF Catalog!Min
  <2>. HIDE DEF x
  <2>3. x <= m /\ m <= x /\ x \in Int
    BY <1>2, <2>2
  <2>4. x = m
    BY <2>3
  <2>. QED
    BY <2>4 DEF x
<1>. QED
  BY <1>1, <1>2

\* Some numbers up to N have a least one and a greatest.
LEMMA LastIsGreatest ==
    ASSUME PipelineLength \in Nat, NEW S, S \subseteq 1 .. PipelineLength, S # {}
    PROVE  Catalog!Max(S) \in S /\ Catalog!Min(S) \in S
<1>1. PICK x \in S : \A y \in S : x <= y
  BY FirstOf
<1>2. Catalog!Min(S) \in S
  BY <1>1, Zenon DEF Catalog!Min
<1>3. PICK z \in S : \A y \in S : y <= z
  BY LastOf
<1>4. \A y \in S : z >= y
  BY <1>3
<1>5. Catalog!Max(S) \in S
  BY <1>4, Zenon DEF Catalog!Max
<1>. QED
  BY <1>2, <1>5

\* Where no alias is ambiguous, the engine and the validator agree on who gives
\* a key.
LEMMA SameProducers ==
    ASSUME PipelineLength \in Nat, NEW d \in Catalog!PipelineDefinition,
           ~Catalog!IsAmbiguous(d), NEW k
    PROVE  Catalog!EngineProducers(d, k) = Catalog!ValidatorProducers(d, k)
<1>. DEFINE out == Catalog!Outputters(d,
     k)  named == Catalog!PipelineSteps \cap {k}  claims == out \cup named
<1>0. out \subseteq Catalog!PipelineSteps /\ \A x \in claims : x \in Int
  BY DEF Catalog!Outputters, Catalog!PipelineSteps
<1>1. ASSUME NEW s \in out, NEW t \in claims, t < s PROVE FALSE
  <2>1. s \in Catalog!PipelineSteps /\ k \in d.outputs[s] /\ t \in 1 .. s - 1
    BY <1>1 DEF Catalog!Outputters, Catalog!PipelineSteps
  <2>2. k = t \/ k \in d.outputs[t]
    BY DEF Catalog!Outputters
  <2>. QED
    BY <2>1, <2>2 DEF Catalog!IsAmbiguous, Catalog!ClaimedBefore
<1>2. Catalog!EngineProducers(d, k) = IF claims = {} THEN {} ELSE {Catalog!Min(claims)}
  BY DEF Catalog!EngineProducers
<1>3. Catalog!ValidatorProducers(d, k) = IF out # {} THEN {Catalog!Max(out)} ELSE named
  BY DEF Catalog!ValidatorProducers
<1>4. CASE out = {}
  <2>1. CASE k \in Catalog!PipelineSteps
    <3>1. claims = {k} /\ named = {k} /\ k \in Int
      BY <1>4, <2>1 DEF Catalog!PipelineSteps
    <3>2. Catalog!Min({k}) = k
      BY <3>1, OnlyOne
    <3>. QED
      BY <1>2, <1>3, <1>4, <3>1, <3>2
  <2>2. CASE k \notin Catalog!PipelineSteps
    BY <1>2, <1>3, <1>4, <2>2
  <2>. QED
    BY <2>1, <2>2
<1>5. CASE out # {}
  <2>1. PICK m \in out : TRUE
    BY <1>5
  <2>. HIDE DEF out, named
  <2>2. \A t \in claims : m <= t
    BY <1>0, <1>1, <2>1
  <2>3. \A t \in out : t <= m
    BY <1>0, <1>1, <2>1
  <2>4. m \in Int /\ m \in claims /\ \A x \in out : x \in Int
    BY <1>0, <2>1
  <2>5. Catalog!Max(out) = m
    BY <2>1, <2>3, <2>4, OnlyOne
  <2>6. Catalog!Min(claims) = m
    <3>. HIDE DEF claims
    <3>. QED
      BY <1>0, <2>2, <2>4, OnlyOne
  <2>. QED
    BY <1>2, <1>3, <1>5, <2>4, <2>5, <2>6
<1>. QED
  BY <1>4, <1>5

\* The engine follows what the validator follows, and the step before.
LEMMA EngineFollowsMore ==
    ASSUME PipelineLength \in Nat, NEW d \in Catalog!PipelineDefinition,
           ~Catalog!IsAmbiguous(d),
           NEW s \in Catalog!PipelineSteps
    PROVE  Catalog!EngineGraph(d)[s] \ Catalog!Chain(d,
           s) \subseteq Catalog!ValidatorGraph(d)[s]
<1>1. \A k \in d.inputs[s] : Catalog!EngineProducers(d, k) = Catalog!ValidatorProducers(d, k)
  BY SameProducers
<1>. QED
  BY <1>1 DEF Catalog!EngineGraph, Catalog!ValidatorGraph

\* The graphs of a definition are graphs of its steps.
LEMMA DefinitionGraphs ==
    ASSUME PipelineLength \in Nat, NEW d \in Catalog!PipelineDefinition
    PROVE  d.dependsOn \in Graphs /\ Catalog!ValidatorGraph(d) \in Graphs
           /\ Catalog!EngineGraph(d) \in Graphs
<1>1. d.dependsOn \in Graphs
  BY DEF Catalog!PipelineDefinition, Graphs
<1>2. \A k : \A x \in Catalog!Outputters(d, k) : x \in Catalog!PipelineSteps
  BY DEF Catalog!Outputters
<1>3. ASSUME NEW k PROVE Catalog!ValidatorProducers(d, k) \subseteq Catalog!PipelineSteps
  <2>1. CASE Catalog!Outputters(d, k) = {}
    BY <2>1 DEF Catalog!ValidatorProducers
  <2>2. CASE Catalog!Outputters(d, k) # {}
    <3>. DEFINE S == Catalog!Outputters(d, k)
    <3>1. S \subseteq 1 .. PipelineLength /\ S # {}
      BY <1>2, <2>2 DEF Catalog!PipelineSteps
    <3>2. Catalog!Max(S) \in S
      BY <3>1, LastIsGreatest
    <3>. QED
      BY <1>2, <2>2, <3>2 DEF Catalog!ValidatorProducers
  <2>. QED
    BY <2>1, <2>2
<1>4. ASSUME NEW k PROVE Catalog!EngineProducers(d, k) \subseteq Catalog!PipelineSteps
  <2>. DEFINE S == Catalog!Outputters(d, k) \cup (Catalog!PipelineSteps \cap {k})
  <2>1. CASE S = {}
    BY <2>1 DEF Catalog!EngineProducers
  <2>2. CASE S # {}
    <3>1. S \subseteq 1 .. PipelineLength
      BY <1>2 DEF Catalog!PipelineSteps
    <3>2. Catalog!Min(S) \in S
      BY <2>2, <3>1, LastIsGreatest
    <3>3. Catalog!EngineProducers(d, k) = {Catalog!Min(S)}
      BY <2>2 DEF Catalog!EngineProducers
    <3>. QED
      BY <3>1, <3>2, <3>3 DEF Catalog!PipelineSteps
  <2>. QED
    BY <2>1, <2>2
<1>5. \A s \in Catalog!PipelineSteps : Catalog!Chain(d, s) \subseteq Catalog!PipelineSteps
  BY DEF Catalog!Chain, Catalog!PipelineSteps
<1>6. \A s \in Catalog!PipelineSteps : d.dependsOn[s] \subseteq Catalog!PipelineSteps
  BY <1>1 DEF Graphs
<1>7. Catalog!ValidatorGraph(d) \in Graphs
  BY <1>3, <1>6 DEF Catalog!ValidatorGraph, Graphs
<1>8. Catalog!EngineGraph(d) \in Graphs
  BY <1>4, <1>5, <1>6 DEF Catalog!EngineGraph, Graphs
<1>. QED
  BY <1>1, <1>7, <1>8

-----------------------------------------------------------------------------
(* The invariant *)

CatalogTyped ==
    /\ pipelineFile \in [PipelineNames -> Catalog!PipelineDefinition \cup {NoFile}]
    /\ loaded \in [PipelineNames -> Catalog!PipelineDefinition \cup {NoFile}]
    /\ unchecked \subseteq PipelineNames
    /\ \A n \in unchecked : pipelineFile[n] \in Catalog!PipelineDefinition
    /\ vetted \subseteq Catalog!PipelineDefinition
    /\ executed \subseteq Catalog!PipelineSteps
    /\ edits \in Nat

\* What was vetted is what the registry accepts, what is registered was vetted
\* unless it was read later, and so was what a run executes.
VettingHolds ==
    /\ \A d \in vetted : Catalog!RegistryAccepts(d)
    /\ \A n \in PipelineNames \ unvetted : loaded[n] # NoFile => loaded[n] \in vetted
    /\ unvetted = {} /\ current # NoFile => current \in vetted

\* A refused start has a file that is not accepted.
RefusalHolds ==
    engine = "refused" /\ edits = 0 =>
        \E n \in PipelineNames \ unchecked :
            pipelineFile[n] \in Catalog!PipelineDefinition
            /\ ~Catalog!RegistryAccepts(pipelineFile[n])

\* What a run got past, or what stopped it.
Passed(d) ==
    /\ d \in Catalog!PipelineDefinition
    /\ d.flaw # "unknown" /\ ~Catalog!IsAmbiguous(d)
    /\ validates => Catalog!ValidatorAccepts(d)

OutcomeHolds ==
    /\ verdict \in {"running", "stalled"} => Passed(current)
    /\ verdict = "stalled" /\ current.flaw # "duplicate"
       => ~Catalog!IsAcyclic(Catalog!EngineGraph(current))
    /\ verdict = "rejected" => current \in Catalog!PipelineDefinition
       /\ ~Catalog!ValidatorAccepts(current)

CatalogInv == CatalogTyped /\ VettingHolds /\ RefusalHolds /\ OutcomeHolds

\* What the registry accepts has no circle, and the other way round.
LEMMA RegistryMeansNoCircle ==
    ASSUME PipelineLength \in Nat, NEW d \in Catalog!PipelineDefinition
    PROVE  Catalog!RegistryAccepts(d) <=> d.flaw = "none" /\ Catalog!IsAcyclic(d.dependsOn)
<1>1. d.dependsOn \in Graphs
  BY DefinitionGraphs
<1>2. Catalog!Visited(d.dependsOn) = Catalog!PipelineSteps <=> Catalog!IsAcyclic(d.dependsOn)
  BY <1>1, VisitedMeansNoCircle, NoCircleMeansVisited
<1>. QED
  BY <1>2 DEF Catalog!RegistryAccepts

\* What the validator turns away has an error or a circle.
LEMMA TurnedAwayHasReason ==
    ASSUME PipelineLength \in Nat, NEW d \in Catalog!PipelineDefinition,
           ~Catalog!ValidatorAccepts(d)
    PROVE  \/ d.flaw # "none"
           \/ ~Catalog!IsAcyclic(d.dependsOn)
           \/ ~Catalog!IsAcyclic(Catalog!ValidatorGraph(d))
           \/ ~Catalog!EveryInputIsProduced(d)
<1>. SUFFICES ASSUME d.flaw = "none", Catalog!IsAcyclic(d.dependsOn),
                     Catalog!IsAcyclic(Catalog!ValidatorGraph(d)),
                     Catalog!EveryInputIsProduced(d)
              PROVE  FALSE
  OBVIOUS
<1>1. \A s \in Catalog!PipelineSteps : s \notin d.dependsOn[s]
  <2>1. PICK rank \in [Catalog!PipelineSteps -> Catalog!PipelineSteps] :
           \A s \in Catalog!PipelineSteps : \A t \in d.dependsOn[s] : rank[t] < rank[s]
    BY DEF Catalog!IsAcyclic
  <2>2. ASSUME NEW s \in Catalog!PipelineSteps, s \in d.dependsOn[s] PROVE FALSE
    <3>1. rank[s] < rank[s] /\ rank[s] \in Catalog!PipelineSteps
      BY <2>1, <2>2
    <3>. QED
      BY <3>1 DEF Catalog!PipelineSteps
  <2>. QED
    BY <2>2
<1>2. ~Catalog!FindsCycle(Catalog!ValidatorGraph(d))
  BY DefinitionGraphs, SomethingFoundMeansCircle
<1>. QED
  BY <1>1, <1>2 DEF Catalog!ValidatorAccepts

\* What the invariant says of the steps and the checks.
LEMMA CatalogImplied == PipelineLength \in Nat /\ CatalogInv => Catalog!ChecksAreSound
<1>. SUFFICES ASSUME PipelineLength \in Nat, CatalogInv PROVE Catalog!ChecksAreSound
  OBVIOUS
<1>1. Catalog!RunsAreVetted
  BY DEF CatalogInv, VettingHolds, Catalog!RunsAreVetted
<1>2. ASSUME verdict = "stalled", current.flaw # "duplicate"
      PROVE  ~Catalog!IsAcyclic(Catalog!EngineGraph(current))
  BY <1>2 DEF CatalogInv, OutcomeHolds
<1>3. ASSUME current \in vetted
             PROVE current.flaw = "none" /\ Catalog!IsAcyclic(current.dependsOn)
  <2>1. current \in Catalog!PipelineDefinition /\ Catalog!RegistryAccepts(current)
    BY <1>3 DEF CatalogInv, CatalogTyped, VettingHolds
  <2>. QED
    BY <2>1, RegistryMeansNoCircle
<1>4. ASSUME verdict = "stalled", validates
      PROVE  current.flaw = "none"
             /\ Catalog!IsAcyclic([s \in Catalog!PipelineSteps |->
                             Catalog!EngineGraph(current)[s] \ Catalog!Chain(current, s)])
  <2>. DEFINE less == [s \in Catalog!PipelineSteps |->
                         Catalog!EngineGraph(current)[s] \ Catalog!Chain(current, s)]
  <2>1. Passed(current)
    BY <1>4 DEF CatalogInv, OutcomeHolds
  <2>2. current \in Catalog!PipelineDefinition /\ ~Catalog!IsAmbiguous(current)
        /\ current.flaw # "unknown"
        /\ Catalog!ValidatorAccepts(current)
    BY <1>4, <2>1 DEF Passed
  <2>3. current.flaw = "none" /\ ~Catalog!FindsCycle(Catalog!ValidatorGraph(current))
    BY <2>2 DEF Catalog!ValidatorAccepts
  <2>4. Catalog!ValidatorGraph(current) \in Graphs
    BY <2>2, DefinitionGraphs
  <2>5. Catalog!IsAcyclic(Catalog!ValidatorGraph(current))
    BY <2>3, <2>4, NothingFoundMeansNoCircle
  <2>6. \A s \in Catalog!PipelineSteps : less[s] \subseteq Catalog!ValidatorGraph(current)[s]
    BY <2>2, EngineFollowsMore
  <2>. HIDE DEF less
  <2>7. Catalog!IsAcyclic(less)
    BY <2>5, <2>6, FewerEdges
  <2>. QED
    BY <2>3, <2>7 DEF less
<1>5. Catalog!StallsAreUnseen
  BY <1>2, <1>3, <1>4 DEF Catalog!StallsAreUnseen
<1>6. ASSUME engine = "refused", edits = 0
      PROVE  \E n \in PipelineNames \ unchecked :
                pipelineFile[n].flaw # "none" \/ ~Catalog!IsAcyclic(pipelineFile[n].dependsOn)
  <2>1. PICK n \in PipelineNames \ unchecked :
           pipelineFile[n] \in Catalog!PipelineDefinition
           /\ ~Catalog!RegistryAccepts(pipelineFile[n])
    BY <1>6 DEF CatalogInv, RefusalHolds
  <2>. DEFINE d == pipelineFile[n]
  <2>. HIDE DEF d
  <2>2. d \in Catalog!PipelineDefinition /\ ~Catalog!RegistryAccepts(d)
    BY <2>1 DEF d
  <2>3. d.flaw # "none" \/ ~Catalog!IsAcyclic(d.dependsOn)
    BY <2>2, RegistryMeansNoCircle
  <2>. QED
    BY <2>3 DEF d
<1>7. ASSUME verdict = "rejected"
      PROVE  \/ current.flaw # "none"
             \/ ~Catalog!IsAcyclic(current.dependsOn)
             \/ ~Catalog!IsAcyclic(Catalog!ValidatorGraph(current))
             \/ ~Catalog!EveryInputIsProduced(current)
  <2>1. current \in Catalog!PipelineDefinition /\ ~Catalog!ValidatorAccepts(current)
    BY <1>7 DEF CatalogInv, OutcomeHolds
  <2>. QED
    BY <2>1, TurnedAwayHasReason
<1>8. Catalog!RefusalsAreEarned
  BY <1>6, <1>7 DEF Catalog!RefusalsAreEarned
<1>. QED
  BY <1>1, <1>5, <1>8 DEF Catalog!ChecksAreSound

\* It holds of a process that has not looked at the files yet.
LEMMA CatalogInit ==
    Catalog!CatalogAssumption
    /\ pipelineFile \in [PipelineNames -> Definitions \cup {NoFile}] /\ Catalog!Fresh
       => CatalogInv
<1>. SUFFICES ASSUME Catalog!CatalogAssumption,
                     pipelineFile \in [PipelineNames -> Definitions \cup {NoFile}],
                     Catalog!Fresh
              PROVE  CatalogInv
  OBVIOUS
<1>1. pipelineFile \in [PipelineNames -> Catalog!PipelineDefinition \cup {NoFile}]
  <2>1. Definitions \cup {NoFile} \subseteq Catalog!PipelineDefinition \cup {NoFile}
    BY DEF Catalog!CatalogAssumption
  <2>. QED
    BY <2>1
<1>2. CatalogTyped
  BY <1>1 DEF Catalog!Fresh, Catalog!Files, CatalogTyped
<1>. QED
  BY <1>2 DEF Catalog!Fresh, CatalogInv, VettingHolds, RefusalHolds, OutcomeHolds

\* A file is rewritten: nothing that was read changes, and nothing of a refusal
\* is promised any more.
LEMMA EditKeeps ==
    ASSUME Catalog!CatalogAssumption, CatalogInv, NEW n \in PipelineNames, Catalog!Edit(n)
    PROVE  CatalogInv'
<1>1. PICK d \in Rewrites : pipelineFile' = [pipelineFile EXCEPT ![n] = d]
  BY DEF Catalog!Edit
<1>2. d \in Catalog!PipelineDefinition
  BY DEF Catalog!CatalogAssumption
<1>3. /\ edits' = edits + 1
      /\ UNCHANGED <<loaded, unchecked, engine, validates, vetted, unvetted, current,
                     executed, verdict, catalogRuns>>
  BY DEF Catalog!Edit
<1>4. CatalogTyped'
  BY <1>1, <1>2, <1>3 DEF CatalogInv, CatalogTyped
<1>5. VettingHolds'
  BY <1>3 DEF CatalogInv, VettingHolds, Catalog!RegistryAccepts
<1>6. edits' # 0
  BY <1>3 DEF CatalogInv, CatalogTyped
<1>7. RefusalHolds'
  BY <1>6 DEF RefusalHolds
<1>8. OutcomeHolds'
  BY <1>3 DEF CatalogInv, OutcomeHolds, Passed
<1>. QED
  BY <1>4, <1>5, <1>7, <1>8 DEF CatalogInv

\* A file the bootstrap passes is vetted, one it does not pass stays as it is.
LEMMA BootstrapKeeps ==
    ASSUME Catalog!CatalogAssumption, CatalogInv, NEW n \in PipelineNames, Catalog!Bootstrap(n)
    PROVE  CatalogInv'
<1>1. /\ n \in unchecked /\ engine = "booting"
      /\ unchecked' = unchecked \ {n}
      /\ UNCHANGED <<pipelineFile, validates, unvetted, current, executed, verdict, edits,
         catalogRuns>>
  BY DEF Catalog!Bootstrap
<1>2. pipelineFile[n] \in Catalog!PipelineDefinition
  BY <1>1 DEF CatalogInv, CatalogTyped
<1>3. OutcomeHolds'
  BY <1>1 DEF CatalogInv, OutcomeHolds, Passed
<1>4. CASE Catalog!RegistryAccepts(pipelineFile[n])
  <2>1. /\ loaded' = [loaded EXCEPT ![n] = pipelineFile[n]]
        /\ vetted' = vetted \cup {pipelineFile[n]}
        /\ engine' # "refused"
    BY <1>4 DEF Catalog!Bootstrap
  <2>2. CatalogTyped'
    BY <1>1, <1>2, <2>1 DEF CatalogInv, CatalogTyped
  <2>3. \A m \in PipelineNames : loaded'[m] = IF m = n THEN pipelineFile[n] ELSE loaded[m]
    BY <2>1 DEF CatalogInv, CatalogTyped
  <2>4. VettingHolds'
    BY <1>1, <1>4, <2>1, <2>3 DEF CatalogInv, VettingHolds
  <2>5. RefusalHolds'
    BY <2>1 DEF RefusalHolds
  <2>. QED
    BY <1>3, <2>2, <2>4, <2>5 DEF CatalogInv
<1>5. CASE ~Catalog!RegistryAccepts(pipelineFile[n])
  <2>1. engine' = "refused" /\ UNCHANGED <<loaded, vetted>>
    BY <1>5 DEF Catalog!Bootstrap
  <2>2. CatalogTyped'
    BY <1>1, <2>1 DEF CatalogInv, CatalogTyped
  <2>3. VettingHolds'
    BY <1>1, <2>1 DEF CatalogInv, VettingHolds
  <2>4. n \in PipelineNames \ unchecked' /\ pipelineFile'[n] \in Catalog!PipelineDefinition
        /\ ~Catalog!RegistryAccepts(pipelineFile'[n])
    BY <1>1, <1>2, <1>5
  <2>5. RefusalHolds'
    BY <2>4 DEF RefusalHolds
  <2>. QED
    BY <1>3, <2>2, <2>3, <2>5 DEF CatalogInv
<1>. QED
  BY <1>4, <1>5

\* A run that takes a definition knows whether it is turned away.
LEMMA TakeJudges ==
    ASSUME NEW d \in Catalog!PipelineDefinition, Catalog!Take(d), validates' = validates
    PROVE  OutcomeHolds' /\ current' = d /\ executed' = {}
<1>1. current' = d /\ executed' = {}
  BY DEF Catalog!Take
<1>2. CASE validates /\ ~Catalog!ValidatorAccepts(d)
  <2>1. verdict' = "rejected"
    BY <1>2 DEF Catalog!Take
  <2>. QED
    BY <1>1, <1>2, <2>1 DEF OutcomeHolds
<1>3. CASE ~(validates /\ ~Catalog!ValidatorAccepts(d)) /\ (d.flaw = "unknown"
           \/ Catalog!IsAmbiguous(d))
  <2>1. verdict' = "unbuildable"
    BY <1>3 DEF Catalog!Take
  <2>. QED
    BY <1>1, <2>1 DEF OutcomeHolds
<1>4. CASE /\ ~(validates /\ ~Catalog!ValidatorAccepts(d))
           /\ ~(d.flaw = "unknown" \/ Catalog!IsAmbiguous(d))
  <2>1. verdict' = "running"
    BY <1>4 DEF Catalog!Take
  <2>2. Passed(current)'
    BY <1>1, <1>4 DEF Passed
  <2>. QED
    BY <1>1, <2>1, <2>2 DEF OutcomeHolds
<1>. QED
  BY <1>2, <1>3, <1>4

\* A run of what is registered executes what was vetted, unless it was read later.
LEMMA RunRegisteredKeeps ==
    ASSUME CatalogInv, NEW n \in PipelineNames, Catalog!RunRegistered(n)
    PROVE  CatalogInv'
<1>. DEFINE d == loaded[n]
<1>1. /\ engine = "up" /\ d # NoFile /\ Catalog!Take(d)
      /\ UNCHANGED <<pipelineFile, loaded, unchecked, engine, validates, vetted, unvetted,
         edits>>
  BY DEF Catalog!RunRegistered, Catalog!CanRun
<1>2. d \in Catalog!PipelineDefinition
  BY <1>1 DEF CatalogInv, CatalogTyped
<1>. HIDE DEF d
<1>3. OutcomeHolds' /\ current' = d /\ executed' = {}
  BY <1>1, <1>2, TakeJudges
<1>4. CatalogTyped'
  BY <1>1, <1>3 DEF CatalogInv, CatalogTyped
<1>5. unvetted = {} => d \in vetted
  BY <1>1 DEF CatalogInv, VettingHolds, d
<1>6. VettingHolds'
  BY <1>1, <1>3, <1>5 DEF CatalogInv, VettingHolds
<1>7. RefusalHolds'
  BY <1>1 DEF RefusalHolds
<1>. QED
  BY <1>3, <1>4, <1>6, <1>7 DEF CatalogInv

\* A run of a file knows that its definition was not vetted.
LEMMA RunFileKeeps ==
    ASSUME CatalogInv, NEW n \in PipelineNames, NEW byPath \in BOOLEAN,
           Catalog!RunFile(n, byPath)
    PROVE  CatalogInv'
<1>. DEFINE d == pipelineFile[n]
<1>1. /\ engine = "up" /\ d # NoFile /\ Catalog!Take(d)
      /\ loaded' = [loaded EXCEPT ![n] = d]
      /\ unvetted' = unvetted \cup {n}
      /\ UNCHANGED <<pipelineFile, unchecked, engine, validates, vetted, edits>>
  BY DEF Catalog!RunFile, Catalog!CanRun
<1>2. d \in Catalog!PipelineDefinition
  BY <1>1 DEF CatalogInv, CatalogTyped
<1>. HIDE DEF d
<1>3. OutcomeHolds' /\ current' = d /\ executed' = {}
  BY <1>1, <1>2, TakeJudges
<1>4. CatalogTyped'
  BY <1>1, <1>2, <1>3 DEF CatalogInv, CatalogTyped
<1>5. unvetted' # {} /\ \A m \in PipelineNames \ unvetted' : m \notin unvetted
      /\ loaded'[m] = loaded[m]
  BY <1>1 DEF CatalogInv, CatalogTyped
<1>6. VettingHolds'
  BY <1>1, <1>5 DEF CatalogInv, VettingHolds
<1>7. RefusalHolds'
  BY <1>1 DEF RefusalHolds
<1>. QED
  BY <1>3, <1>4, <1>6, <1>7 DEF CatalogInv

\* A file that cannot be parsed gives no run.
LEMMA RunMalformedKeeps ==
    ASSUME CatalogInv, NEW n \in PipelineNames, NEW byPath \in BOOLEAN,
           Catalog!RunMalformed(n, byPath)
    PROVE  CatalogInv'
<1>1. /\ engine = "up" /\ current' = NoFile /\ executed' = {} /\ verdict' = "unparsed"
      /\ UNCHANGED <<pipelineFile, loaded, unchecked, engine, validates, vetted, unvetted,
         edits>>
  BY DEF Catalog!RunMalformed, Catalog!CanRun
<1>2. CatalogTyped'
  BY <1>1 DEF CatalogInv, CatalogTyped
<1>3. VettingHolds' /\ RefusalHolds' /\ OutcomeHolds'
  BY <1>1 DEF CatalogInv, VettingHolds, RefusalHolds, OutcomeHolds
<1>. QED
  BY <1>2, <1>3 DEF CatalogInv

\* A round without a step that is ready has steps left that wait for each other.
LEMMA RoundKeeps ==
    ASSUME Catalog!CatalogAssumption, CatalogInv, Catalog!Round
    PROVE  CatalogInv'
<1>. DEFINE graph == Catalog!EngineGraph(current)
            ready == {s \in Catalog!PipelineSteps \ executed : graph[s] \subseteq executed}
<1>1. /\ verdict = "running"
      /\ executed' = executed \cup ready
      /\ verdict' = IF executed' = Catalog!PipelineSteps /\ current.flaw # "duplicate"
                    THEN "complete"
                    ELSE IF ready = {} THEN "stalled" ELSE "running"
      /\ UNCHANGED <<pipelineFile, loaded, unchecked, engine, validates, vetted, unvetted,
                     current, edits, catalogRuns>>
  BY DEF Catalog!Round
<1>2. PipelineLength \in Nat /\ Passed(current)
  BY <1>1 DEF Catalog!CatalogAssumption, CatalogInv, OutcomeHolds
<1>3. graph \in Graphs
  BY <1>2, DefinitionGraphs DEF Passed
<1>. HIDE DEF graph
<1>4. ASSUME verdict' = "stalled", current.flaw # "duplicate" PROVE ~Catalog!IsAcyclic(graph)
  <2>1. ready = {} /\ executed' # Catalog!PipelineSteps
    BY <1>1, <1>4
  <2>2. executed' = executed
    BY <1>1, <2>1
  <2>. DEFINE S == Catalog!PipelineSteps \ executed
  <2>3. S \in SUBSET Catalog!PipelineSteps /\ S # {}
    BY <2>1, <2>2 DEF CatalogInv, CatalogTyped
  <2>4. ASSUME NEW s \in S, graph[s] \cap S = {} PROVE FALSE
    <3>1. graph[s] \subseteq Catalog!PipelineSteps
      BY <1>3 DEF Graphs
    <3>2. s \in ready
      BY <2>4, <3>1
    <3>. QED
      BY <2>1, <3>2
  <2>. HIDE DEF S
  <2>. QED
    BY <1>2, <1>3, <2>3, <2>4, SomeStepIsFirst
<1>5. verdict' # "rejected"
  BY <1>1
<1>6. Passed(current)'
  BY <1>1, <1>2 DEF Passed
<1>7. OutcomeHolds'
  <2>1. graph' = graph
    BY <1>1 DEF graph
  <2>. QED
    BY <1>1, <1>4, <1>5, <1>6 DEF OutcomeHolds, graph
<1>8. executed' \subseteq Catalog!PipelineSteps
  BY <1>1 DEF CatalogInv, CatalogTyped
<1>9. CatalogTyped'
  BY <1>1, <1>8 DEF CatalogInv, CatalogTyped
<1>10. VettingHolds' /\ RefusalHolds'
  BY <1>1 DEF CatalogInv, VettingHolds, RefusalHolds
<1>. QED
  BY <1>7, <1>9, <1>10 DEF CatalogInv

\* Every step keeps the invariant.
LEMMA CatalogStep == Catalog!CatalogAssumption /\ CatalogInv /\ [Catalog!Next]_Catalog!vars
    => CatalogInv'
<1>. SUFFICES ASSUME Catalog!CatalogAssumption, CatalogInv, [Catalog!Next]_Catalog!vars
                     PROVE CatalogInv'
  OBVIOUS
<1>1. ASSUME NEW n \in PipelineNames, Catalog!Edit(n) PROVE CatalogInv'
  BY <1>1, EditKeeps
<1>2. ASSUME NEW n \in PipelineNames, Catalog!Bootstrap(n) PROVE CatalogInv'
  BY <1>2, BootstrapKeeps
<1>3. ASSUME NEW n \in PipelineNames, Catalog!RunRegistered(n) PROVE CatalogInv'
  BY <1>3, RunRegisteredKeeps
<1>4. ASSUME NEW n \in PipelineNames, NEW byPath \in BOOLEAN, Catalog!RunFile(n, byPath)
             PROVE CatalogInv'
  BY <1>4, RunFileKeeps
<1>5. ASSUME NEW n \in PipelineNames, NEW byPath \in BOOLEAN, Catalog!RunMalformed(n, byPath)
      PROVE  CatalogInv'
  BY <1>5, RunMalformedKeeps
<1>6. ASSUME Catalog!BootstrapEmpty PROVE CatalogInv'
  <2>1. /\ engine' = "up"
        /\ UNCHANGED <<pipelineFile, loaded, unchecked, validates, vetted, unvetted, current,
                       executed, verdict, edits, catalogRuns>>
    BY <1>6 DEF Catalog!BootstrapEmpty
  <2>. QED
    BY <2>1 DEF CatalogInv, CatalogTyped, VettingHolds, RefusalHolds, OutcomeHolds, Passed
<1>7. CASE Catalog!Round
  BY <1>7, RoundKeeps
<1>8. ASSUME Catalog!Restart PROVE CatalogInv'
  <2>1. /\ engine' = "booting" /\ unchecked' = Catalog!Files
        /\ loaded' = [n \in PipelineNames |-> NoFile]
        /\ unvetted' = {} /\ vetted' = {} /\ current' = NoFile /\ executed' = {}
        /\ verdict' = "idle"
        /\ UNCHANGED <<pipelineFile, validates, edits>>
    BY <1>8 DEF Catalog!Restart
  <2>2. CatalogTyped'
    BY <2>1 DEF CatalogInv, CatalogTyped, Catalog!Files
  <2>. QED
    BY <2>1, <2>2 DEF CatalogInv, VettingHolds, RefusalHolds, OutcomeHolds
<1>9. CASE UNCHANGED Catalog!vars
  BY <1>9 DEF Catalog!vars, CatalogInv, CatalogTyped, VettingHolds, RefusalHolds,
     OutcomeHolds, Passed
<1>. QED
  BY <1>1, <1>2, <1>3, <1>4, <1>5, <1>6, <1>7, <1>8, <1>9 DEF Catalog!Next
=============================================================================
