------------------------ MODULE PluginRegistryProofs ------------------------
(***************************************************************************)
(* Theorems about PluginRegistry, for any manifests, grants, hook types,   *)
(* priorities and number of host calls.  The registry and the hook manager *)
(* do not touch each other's state, so each has an invariant of its own.   *)
(***************************************************************************)
EXTENDS PluginRegistry, ArraysProofs, FiniteSetTheorems, SequenceTheorems, TLAPS

-----------------------------------------------------------------------------
(* The operators. *)

(* The entries before, the new one, the entries after. *)
LEMMA InsertAtFacts ==
    ASSUME NEW S, NEW s \in Seq(S), NEW b \in 0..Len(s), NEW e \in S
    PROVE  /\ InsertAt(s, b + 1, e) \in Seq(S)
           /\ Len(InsertAt(s, b + 1, e)) = Len(s) + 1
           /\ \A i \in 1..(Len(s) + 1) :
                 InsertAt(s, b + 1, e)[i] =
                    IF i <= b THEN s[i] ELSE IF i = b + 1 THEN e ELSE s[i - 1]
<1> DEFINE p == SubSeq(s, 1, b)
           t == SubSeq(s, b + 1, Len(s))
           pe == p \o <<e>>
<1>0. Len(s) \in Nat /\ b \in Nat /\ \A i \in 1..Len(s) : s[i] \in S
  BY LenProperties
<1>1. p \in Seq(S) /\ Len(p) = b /\ \A i \in 1..b : p[i] = s[i]
  <2>1. \A i \in 1..b : s[i] \in S
    BY <1>0
  <2> QED
    BY <2>1, <1>0, SubSeqProperties
<1>2. t \in Seq(S) /\ Len(t) = Len(s) - b /\ \A i \in 1..(Len(s) - b) : t[i] = s[b + i]
  <2>1. \A i \in (b + 1)..Len(s) : s[i] \in S
    BY <1>0
  <2>2. /\ t \in Seq(S)
        /\ Len(t) = IF b + 1 <= Len(s) THEN Len(s) - (b + 1) + 1 ELSE 0
        /\ \A i \in 1..(Len(s) - (b + 1) + 1) : t[i] = s[(b + 1) + i - 1]
    BY <2>1, <1>0, SubSeqProperties
  <2> HIDE DEF t
  <2> QED
    BY <2>2, <1>0
<1>3. <<e>> \in Seq(S) /\ Len(<<e>>) = 1 /\ <<e>>[1] = e
  OBVIOUS
<1> HIDE DEF p, t
<1>4. /\ pe \in Seq(S) /\ Len(pe) = b + 1
      /\ \A i \in 1..(b + 1) : pe[i] = IF i <= b THEN s[i] ELSE e
  <2>1. /\ pe \in Seq(S) /\ Len(pe) = b + 1
        /\ \A i \in 1..(b + 1) : pe[i] = IF i <= b THEN p[i] ELSE <<e>>[i - b]
    BY <1>1, <1>3, ConcatProperties
  <2> HIDE DEF pe
  <2> QED
    BY <2>1, <1>0, <1>1, <1>3
<1> HIDE DEF pe
<1>5. /\ pe \o t \in Seq(S) /\ Len(pe \o t) = Len(s) + 1
      /\ \A i \in 1..(Len(s) + 1) :
            (pe \o t)[i] = IF i <= b + 1 THEN pe[i] ELSE t[i - (b + 1)]
  <2>1. /\ pe \o t \in Seq(S) /\ Len(pe \o t) = Len(pe) + Len(t)
        /\ \A i \in 1..(Len(pe) + Len(t)) :
              (pe \o t)[i] = IF i <= Len(pe) THEN pe[i] ELSE t[i - Len(pe)]
    BY <1>2, <1>4, ConcatProperties
  <2>2. Len(pe) = b + 1 /\ Len(pe) + Len(t) = Len(s) + 1
    BY <1>0, <1>2, <1>4
  <2> QED
    BY <2>1, <2>2
<1>6. InsertAt(s, b + 1, e) = pe \o t
  <2>1. (b + 1) - 1 = b
    BY <1>0
  <2>2. InsertAt(s, b + 1, e) = SubSeq(s, 1, (b + 1) - 1) \o <<e>> \o SubSeq(s, b + 1, Len(s))
    BY DEF InsertAt
  <2> QED
    BY <2>1, <2>2 DEF pe, p, t
<1> DEFINE r == InsertAt(s, b + 1, e)
<1>7. /\ r \in Seq(S) /\ Len(r) = Len(s) + 1
      /\ \A i \in 1..(Len(s) + 1) : r[i] = IF i <= b + 1 THEN pe[i] ELSE t[i - (b + 1)]
  BY <1>5, <1>6
<1> HIDE DEF r
<1>8. ASSUME NEW i \in 1..(Len(s) + 1)
      PROVE  r[i] = IF i <= b THEN s[i] ELSE IF i = b + 1 THEN e ELSE s[i - 1]
  <2>1. CASE i <= b + 1
    BY <2>1, <1>0, <1>4, <1>7
  <2>2. CASE ~(i <= b + 1)
    <3>1. i - (b + 1) \in 1..(Len(s) - b) /\ b + (i - (b + 1)) = i - 1
      BY <2>2, <1>0
    <3>2. r[i] = t[i - (b + 1)]
      BY <2>2, <1>7, <1>8, Zenon
    <3>3. t[i - (b + 1)] = s[b + (i - (b + 1))]
      BY <3>1, <1>2, Zenon
    <3>4. ~(i <= b) /\ i # b + 1
      BY <2>2, <1>0
    <3> QED
      BY <3>1, <3>2, <3>3, <3>4, Zenon
  <2> QED
    BY <2>1, <2>2
<1> QED
  BY <1>7, <1>8 DEF r

-----------------------------------------------------------------------------
(* The registry. *)

Record == [manifest : Manifests, state : {"validated", "running", "deactivated", "error"},
           enabled : BOOLEAN, hooked : BOOLEAN]
LifecycleCall == [n : Nat, op : {"activate", "deactivate"}, id : Ids, reg : Nat]

(* The maps and the awaited calls hold records that exist, the maps under the *)
(* id of the record's own manifest, and no record was made of a manifest that *)
(* the checks refuse.                                                         *)
RegistryInv ==
    /\ calls \in Nat
    /\ records \in Seq(Record)
    /\ \A i \in DOMAIN records : /\ validateManifest(records[i].manifest)
                                 /\ arePermissionsAllowed(records[i].manifest.permissions)
    /\ \A id \in DOMAIN plugins : /\ plugins[id] \in DOMAIN records
                                  /\ records[plugins[id]].manifest.id = id
    /\ lifecycle \in SUBSET LifecycleCall
    /\ \A call \in lifecycle : call.reg \in DOMAIN records

(* Whoever holds it, a record is running only by its own activation. *)
RunningInv == \A i \in DOMAIN records : records[i].state = "running" => i \in activated

(* Every step is a step of one of the actions. *)
LEMMA PluginNextCases ==
    ASSUME NEW G, [PluginNext]_pluginVars,
           \A m \in Manifests : \A hooked \in BOOLEAN : register(m, hooked) => G,
           \A id \in Ids : unregister(id) => G,
           \A id \in Ids : \A op \in {"activate", "deactivate"} : Begin(op, id) => G,
           \A id \in Ids : \A flag \in BOOLEAN : setEnabled(id, flag) => G,
           \A ok \in BOOLEAN : HookSettles(ok) => G,
           \A id \in Ids : \A type \in HookTypes : \A p \in Priorities :
              registerHook(id, type, p) => G,
           \A id \in Ids : unregisterPlugin(id) => G,
           \A type \in HookTypes : trigger(type) => G,
           \A result \in {"continue", "abort", "modify", "throws"} : HandlerAnswers(result) => G,
           UNCHANGED pluginVars => G
    PROVE  G
  BY DEF PluginNext, activate, deactivate, enable, disable

(* What the end of a lifecycle call makes of a record: another record with   *)
(* the same manifest, that runs only after a successful activation.          *)
LEMMA SettledFacts ==
    ASSUME NEW record \in Record, NEW op \in {"activate", "deactivate"}, NEW ok \in BOOLEAN
    PROVE  /\ Settled(record, op, ok) \in Record
           /\ Settled(record, op, ok).manifest = record.manifest
           /\ Settled(record, op, ok).state = "running" => op = "activate" /\ ok
  BY DEF Settled, Record

(* Rewriting one record in place, its manifest kept, keeps the registry. *)
LEMMA RecordRewrite ==
    ASSUME RegistryInv, NEW reg \in DOMAIN records, NEW r \in Record,
           r.manifest = records[reg].manifest,
           records' = [records EXCEPT ![reg] = r]
    PROVE  /\ records' \in Seq(Record) /\ DOMAIN records' = DOMAIN records
           /\ \A i \in DOMAIN records : records'[i] = IF i = reg THEN r ELSE records[i]
           /\ \A i \in DOMAIN records : records'[i].manifest = records[i].manifest
<1>1. records \in Seq(Record) /\ DOMAIN records = 1..Len(records)
  BY LenProperties DEF RegistryInv
<1>2. records' \in Seq(Record) /\ Len(records') = Len(records)
  BY <1>1, ExceptSeq
<1>3. \A i \in DOMAIN records : records'[i] = IF i = reg THEN r ELSE records[i]
  OBVIOUS
<1> QED
  BY <1>1, <1>2, <1>3, LenProperties

(* Every action keeps the registry's invariant. *)
LEMMA RegistryStep == RegistryInv /\ [PluginNext]_pluginVars => RegistryInv'
<1> SUFFICES ASSUME RegistryInv, [PluginNext]_pluginVars PROVE RegistryInv'
  OBVIOUS
<1>0. DOMAIN records = 1..Len(records) /\ Len(records) \in Nat
  BY LenProperties DEF RegistryInv
<1>1. ASSUME NEW m \in Manifests, NEW hooked \in BOOLEAN, register(m, hooked)
      PROVE  RegistryInv'
  <2> DEFINE r == [manifest |-> m, state |-> "validated", enabled |-> FALSE, hooked |-> hooked]
  <2>1. r \in Record
    BY DEF Record
  <2>2. records' = Append(records, r)
    BY <1>1 DEF register
  <2>3. /\ records' \in Seq(Record) /\ Len(records') = Len(records) + 1
        /\ \A i \in 1..Len(records) : records'[i] = records[i]
        /\ records'[Len(records) + 1] = r
    BY <2>1, <2>2, AppendProperties DEF RegistryInv
  <2>4. DOMAIN records' = 1..(Len(records) + 1)
    BY <2>3, LenProperties
  <2>5. validateManifest(m) /\ arePermissionsAllowed(m.permissions) /\ r.manifest = m
    BY <1>1 DEF register
  <2> HIDE DEF r
  <2>6. \A i \in DOMAIN records' : /\ validateManifest(records'[i].manifest)
                                   /\ arePermissionsAllowed(records'[i].manifest.permissions)
    <3>1. \A i \in DOMAIN records' : i \in DOMAIN records \/ i = Len(records) + 1
      BY <1>0, <2>4
    <3> QED
      BY <1>0, <2>3, <2>5, <3>1 DEF RegistryInv
  <2>7. \A id \in DOMAIN plugins' : /\ plugins'[id] \in DOMAIN records'
                                    /\ records'[plugins'[id]].manifest.id = id
    <3> SUFFICES ASSUME NEW id \in DOMAIN plugins'
                 PROVE  /\ plugins'[id] \in DOMAIN records'
                        /\ records'[plugins'[id]].manifest.id = id
      OBVIOUS
    <3>1. plugins' = [i \in DOMAIN plugins \cup {m.id} |->
                        IF i = m.id THEN Len(records) + 1 ELSE plugins[i]]
      BY <1>1 DEF register
    <3>2. CASE id = m.id
      BY <3>1, <3>2, <1>0, <2>3, <2>4, <2>5
    <3>3. CASE id # m.id
      <4>1. id \in DOMAIN plugins /\ plugins'[id] = plugins[id]
        BY <3>1, <3>3
      <4>2. plugins[id] \in 1..Len(records) /\ records[plugins[id]].manifest.id = id
        BY <4>1, <1>0 DEF RegistryInv
      <4> QED
        BY <4>1, <4>2, <1>0, <2>3, <2>4
    <3> QED
      BY <3>2, <3>3
  <2>8. calls' \in Nat /\ lifecycle' = lifecycle
    BY <1>1 DEF register, HostCall, RegistryInv
  <2>9. \A call \in lifecycle' : call.reg \in DOMAIN records'
    BY <1>0, <2>4, <2>8 DEF RegistryInv
  <2> QED
    BY <2>3, <2>6, <2>7, <2>8, <2>9 DEF RegistryInv
<1>2. ASSUME NEW id \in Ids, unregister(id) PROVE RegistryInv'
  <2>1. /\ plugins' = [i \in DOMAIN plugins \ {id} |-> plugins[i]]
        /\ UNCHANGED <<records, lifecycle>>
    BY <1>2 DEF unregister
  <2>2. calls' \in Nat
    BY <1>2 DEF unregister, HostCall, RegistryInv
  <2> QED
    BY <2>1, <2>2 DEF RegistryInv
<1>r. ASSUME NEW reg \in DOMAIN records, NEW r \in Record, r.manifest = records[reg].manifest,
             records' = [records EXCEPT ![reg] = r], plugins' = plugins, calls' \in Nat,
             lifecycle' \subseteq lifecycle
      PROVE  RegistryInv'
  <2>1. /\ records' \in Seq(Record) /\ DOMAIN records' = DOMAIN records
        /\ \A i \in DOMAIN records : records'[i].manifest = records[i].manifest
    BY <1>r, RecordRewrite
  <2> QED
    BY <1>r, <2>1 DEF RegistryInv
<1>3. ASSUME NEW id \in Ids, NEW op \in {"activate", "deactivate"}, Begin(op, id)
      PROVE  RegistryInv'
  <2> DEFINE reg == plugins[id]
  <2>1. reg \in DOMAIN records /\ plugins' = plugins /\ calls' \in Nat
    BY <1>3 DEF Begin, HostCall, RegistryInv
  <2>2. CASE records[reg].hooked
    <3>1. /\ records' = records
          /\ lifecycle' = lifecycle \cup {[n |-> calls, op |-> op, id |-> id, reg |-> reg]}
      BY <1>3, <2>2 DEF Begin
    <3>2. [n |-> calls, op |-> op, id |-> id, reg |-> reg] \in LifecycleCall
      BY <1>0, <2>1 DEF LifecycleCall, RegistryInv
    <3> QED
      BY <2>1, <3>1, <3>2 DEF RegistryInv
  <2>3. CASE ~records[reg].hooked
    <3>1. /\ records' = [records EXCEPT ![reg] = Settled(records[reg], op, TRUE)]
          /\ lifecycle' = lifecycle
      BY <1>3, <2>3 DEF Begin
    <3>2. records[reg] \in Record
      BY <1>0, <2>1 DEF RegistryInv
    <3>3. /\ Settled(records[reg], op, TRUE) \in Record
          /\ Settled(records[reg], op, TRUE).manifest = records[reg].manifest
      BY <3>2, SettledFacts
    <3> HIDE DEF reg
    <3> QED
      BY <2>1, <3>1, <3>3, <1>r
  <2> QED
    BY <2>2, <2>3
<1>4. ASSUME NEW id \in Ids, NEW flag \in BOOLEAN, setEnabled(id, flag) PROVE RegistryInv'
  <2> DEFINE reg == plugins[id]
             r == [records[reg] EXCEPT !.enabled = flag]
  <2>1. reg \in DOMAIN records /\ plugins' = plugins /\ calls' \in Nat /\ lifecycle' = lifecycle
    BY <1>4 DEF setEnabled, HostCall, RegistryInv
  <2>2. records' = [records EXCEPT ![reg] = r]
    BY <1>4 DEF setEnabled
  <2>3. records[reg] \in Record
    BY <1>0, <2>1 DEF RegistryInv
  <2>4. r \in Record /\ r.manifest = records[reg].manifest
    BY <2>3 DEF Record
  <2> HIDE DEF reg, r
  <2> QED
    BY <2>1, <2>2, <2>4, <1>r
<1>5. ASSUME NEW ok \in BOOLEAN, HookSettles(ok) PROVE RegistryInv'
  <2>1. PICK call \in lifecycle :
           /\ lifecycle' = lifecycle \ {call}
           /\ records' = [records EXCEPT ![call.reg] = Settled(records[call.reg], call.op, ok)]
    BY <1>5 DEF HookSettles, RecordHeld
  <2>2. call.reg \in DOMAIN records /\ call.op \in {"activate", "deactivate"}
    BY DEF RegistryInv, LifecycleCall
  <2>3. records[call.reg] \in Record
    BY <1>0, <2>2 DEF RegistryInv
  <2>4. /\ Settled(records[call.reg], call.op, ok) \in Record
        /\ Settled(records[call.reg], call.op, ok).manifest = records[call.reg].manifest
    BY <2>2, <2>3, SettledFacts
  <2>5. plugins' = plugins /\ calls' \in Nat
    BY <1>5 DEF HookSettles, RegistryInv
  <2> QED
    BY <2>1, <2>2, <2>4, <2>5, <1>r
<1>6. ASSUME RegistryUntouched, calls' \in Nat PROVE RegistryInv'
  BY <1>6 DEF RegistryUntouched, RegistryInv
<1>7. ASSUME NEW id \in Ids, NEW type \in HookTypes, NEW p \in Priorities,
             registerHook(id, type, p)
      PROVE  RegistryInv'
  BY <1>6, <1>7 DEF registerHook, HostCall, RegistryInv
<1>8. ASSUME NEW id \in Ids, unregisterPlugin(id) PROVE RegistryInv'
  BY <1>6, <1>8 DEF unregisterPlugin, HostCall, RegistryInv
<1>9. ASSUME NEW type \in HookTypes, trigger(type) PROVE RegistryInv'
  BY <1>6, <1>9 DEF trigger, HostCall, RegistryInv
<1>10. ASSUME NEW result, HandlerAnswers(result) PROVE RegistryInv'
  BY <1>6, <1>10 DEF HandlerAnswers, RegistryInv
<1>11. ASSUME UNCHANGED pluginVars PROVE RegistryInv'
  BY <1>11 DEF pluginVars, RegistryInv
<1> QED
  BY <1>1, <1>2, <1>3, <1>4, <1>5, <1>7, <1>8, <1>9, <1>10, <1>11, PluginNextCases

(* The registry's invariant holds in every reachable state. *)
LEMMA Registry == PluginSpec => []RegistryInv
<1>1. PluginInit => RegistryInv
  <2> SUFFICES ASSUME PluginInit PROVE RegistryInv
    OBVIOUS
  <2>1. records \in Seq(Record)
    BY EmptySeq DEF PluginInit
  <2>2. DOMAIN records = {} /\ DOMAIN plugins = {}
    BY DEF PluginInit
  <2> QED
    BY <2>1, <2>2 DEF PluginInit, RegistryInv
<1> QED
  BY <1>1, RegistryStep, PTL DEF PluginSpec

(* Deny by default: what the permission check lets through was granted, action *)
(* by action, by an entry of the host's list for that very resource.           *)
LEMMA AllowedWasGranted ==
    ASSUME NEW permissions, arePermissionsAllowed(permissions)
    PROVE  \A p \in ToSet(permissions) : \A a \in p.actions :
              \E g \in ToSet(Granted) : g.resource = p.resource /\ a \in g.actions
<1> SUFFICES ASSUME NEW i \in DOMAIN permissions, NEW a \in permissions[i].actions
             PROVE  \E j \in DOMAIN Granted : /\ Granted[j].resource = permissions[i].resource
                                              /\ a \in Granted[j].actions
  BY DEF ToSet
<1> DEFINE r == permissions[i].resource
<1>1. r \in DOMAIN grants /\ a \in grants[r]
  BY DEF arePermissionsAllowed
<1>2. DOMAIN grants = {Granted[j].resource : j \in DOMAIN Granted}
  BY DEF grants
<1>3. grants[r] =
         UNION {Granted[j].actions : j \in {k \in DOMAIN Granted : Granted[k].resource = r}}
  BY <1>1, <1>2 DEF grants
<1> QED
  BY <1>1, <1>3

(* The registry's maps and awaited calls are well formed, and deny by default *)
(* holds of every record ever made: no registration, replacement or late      *)
(* answer leaves a plugin with an action the host did not grant.              *)
THEOREM PluginTypes == PluginSpec => []PluginTypeOK
<1>1. RegistryInv => PluginTypeOK
  <2> SUFFICES ASSUME RegistryInv PROVE PluginTypeOK
    OBVIOUS
  <2> DEFINE Good(r) ==
               /\ r.state \in {"validated", "running", "deactivated", "error"}
               /\ r.manifest.complete
               /\ \A p \in ToSet(r.manifest.permissions) : \A a \in p.actions :
                     \E g \in ToSet(Granted) : g.resource = p.resource /\ a \in g.actions
  <2>1. ASSUME NEW i \in DOMAIN records PROVE Good(records[i])
    <3>1. records[i] \in Record
      BY DEF RegistryInv
    <3>2. records[i].state \in {"validated", "running", "deactivated", "error"}
      BY <3>1 DEF Record
    <3>3. validateManifest(records[i].manifest)
      BY DEF RegistryInv
    <3>4. arePermissionsAllowed(records[i].manifest.permissions)
      BY DEF RegistryInv
    <3> QED
      BY <3>2, <3>3, <3>4, AllowedWasGranted, Zenon DEF validateManifest
  <2>2. ASSUME NEW r \in ToSet(records) PROVE Good(r)
    <3>1. PICK i \in DOMAIN records : r = records[i]
      BY DEF ToSet
    <3> HIDE DEF Good
    <3> QED
      BY <2>1, <3>1
  <2> QED
    BY <2>2, Zenon DEF RegistryInv, PluginTypeOK
<1> QED
  BY <1>1, Registry, PTL

(* A settled call marks the record it was made for, so a record that runs was *)
(* activated itself, also when the maps hold another by now.                  *)
LEMMA RunningStep == RegistryInv /\ RunningInv /\ [PluginNext]_pluginVars => RunningInv'
<1> SUFFICES ASSUME RegistryInv, RunningInv, [PluginNext]_pluginVars PROVE RunningInv'
  OBVIOUS
<1>0. DOMAIN records = 1..Len(records) /\ Len(records) \in Nat
  BY LenProperties DEF RegistryInv
<1>r. ASSUME NEW reg \in DOMAIN records, NEW r \in Record, r.manifest = records[reg].manifest,
             records' = [records EXCEPT ![reg] = r], activated \subseteq activated',
             r.state = "running" => reg \in activated'
      PROVE  RunningInv'
  <2>1. /\ DOMAIN records' = DOMAIN records
        /\ \A i \in DOMAIN records : records'[i] = IF i = reg THEN r ELSE records[i]
    BY <1>r, RecordRewrite
  <2> QED
    BY <1>r, <2>1 DEF RunningInv
<1>1. ASSUME NEW m \in Manifests, NEW hooked \in BOOLEAN, register(m, hooked)
      PROVE  RunningInv'
  <2> DEFINE r == [manifest |-> m, state |-> "validated", enabled |-> FALSE, hooked |-> hooked]
  <2>1. r \in Record /\ r.state # "running"
    BY DEF Record
  <2>2. records' = Append(records, r) /\ activated' = activated
    BY <1>1 DEF register
  <2>3. /\ records' \in Seq(Record) /\ Len(records') = Len(records) + 1
        /\ \A i \in 1..Len(records) : records'[i] = records[i]
        /\ records'[Len(records) + 1] = r
    BY <2>1, <2>2, AppendProperties DEF RegistryInv
  <2>4. DOMAIN records' = 1..(Len(records) + 1)
    BY <2>3, LenProperties
  <2> HIDE DEF r
  <2>5. \A i \in DOMAIN records' : i \in DOMAIN records \/ i = Len(records) + 1
    BY <1>0, <2>4
  <2> QED
    BY <1>0, <2>1, <2>2, <2>3, <2>5 DEF RunningInv
<1>2. ASSUME NEW id \in Ids, NEW op \in {"activate", "deactivate"}, Begin(op, id)
      PROVE  RunningInv'
  <2> DEFINE reg == plugins[id]
  <2>1. reg \in DOMAIN records
    BY <1>2 DEF Begin, RegistryInv
  <2>2. CASE records[reg].hooked
    <3>1. records' = records /\ activated' = activated
      BY <1>2, <2>2 DEF Begin
    <3> QED
      BY <3>1 DEF RunningInv
  <2>3. CASE ~records[reg].hooked
    <3>1. /\ records' = [records EXCEPT ![reg] = Settled(records[reg], op, TRUE)]
          /\ activated' = Activated(op, TRUE, reg)
      BY <1>2, <2>3 DEF Begin
    <3>2. records[reg] \in Record
      BY <1>0, <2>1 DEF RegistryInv
    <3>3. /\ Settled(records[reg], op, TRUE) \in Record
          /\ Settled(records[reg], op, TRUE).manifest = records[reg].manifest
          /\ Settled(records[reg], op, TRUE).state = "running" => op = "activate"
      BY <3>2, SettledFacts
    <3>4. activated \subseteq activated' /\ (op = "activate" => reg \in activated')
      BY <3>1 DEF Activated
    <3> HIDE DEF reg
    <3> QED
      BY <2>1, <3>1, <3>3, <3>4, <1>r
  <2> QED
    BY <2>2, <2>3
<1>3. ASSUME NEW id \in Ids, NEW flag \in BOOLEAN, setEnabled(id, flag) PROVE RunningInv'
  <2> DEFINE reg == plugins[id]
             r == [records[reg] EXCEPT !.enabled = flag]
  <2>1. reg \in DOMAIN records /\ activated' = activated
    BY <1>3 DEF setEnabled, RegistryInv
  <2>2. records' = [records EXCEPT ![reg] = r]
    BY <1>3 DEF setEnabled
  <2>3. records[reg] \in Record
    BY <1>0, <2>1 DEF RegistryInv
  <2>4. r \in Record /\ r.manifest = records[reg].manifest /\ r.state = records[reg].state
    BY <2>3 DEF Record
  <2>5. r.state = "running" => reg \in activated'
    BY <2>1, <2>4 DEF RunningInv
  <2> HIDE DEF reg, r
  <2> QED
    BY <2>1, <2>2, <2>4, <2>5, <1>r
<1>4. ASSUME NEW ok \in BOOLEAN, HookSettles(ok) PROVE RunningInv'
  <2>1. PICK call \in lifecycle :
           /\ records' = [records EXCEPT ![call.reg] = Settled(records[call.reg], call.op, ok)]
           /\ activated' = Activated(call.op, ok, call.reg)
    BY <1>4 DEF HookSettles, RecordHeld
  <2>2. call.reg \in DOMAIN records /\ call.op \in {"activate", "deactivate"}
    BY DEF RegistryInv, LifecycleCall
  <2>3. records[call.reg] \in Record
    BY <1>0, <2>2 DEF RegistryInv
  <2>4. /\ Settled(records[call.reg], call.op, ok) \in Record
        /\ Settled(records[call.reg], call.op, ok).manifest = records[call.reg].manifest
        /\ Settled(records[call.reg], call.op, ok).state = "running" => call.op = "activate" /\ ok
    BY <2>2, <2>3, SettledFacts
  <2>5. /\ activated \subseteq activated'
        /\ call.op = "activate" /\ ok => call.reg \in activated'
    BY <2>1 DEF Activated
  <2> QED
    BY <2>1, <2>2, <2>4, <2>5, <1>r
<1>5. UNCHANGED <<records, activated>> => RunningInv'
  BY DEF RunningInv
<1>6. /\ \A id \in Ids : unregister(id) => UNCHANGED <<records, activated>>
      /\ \A id \in Ids : \A type \in HookTypes : \A p \in Priorities :
            registerHook(id, type, p) => UNCHANGED <<records, activated>>
      /\ \A id \in Ids : unregisterPlugin(id) => UNCHANGED <<records, activated>>
      /\ \A type \in HookTypes : trigger(type) => UNCHANGED <<records, activated>>
      /\ \A result \in {"continue", "abort", "modify", "throws"} :
            HandlerAnswers(result) => UNCHANGED <<records, activated>>
      /\ UNCHANGED pluginVars => UNCHANGED <<records, activated>>
  BY DEF unregister, registerHook, unregisterPlugin, trigger, HandlerAnswers,
         RegistryUntouched, pluginVars
<1> QED
  BY <1>1, <1>2, <1>3, <1>4, <1>5, <1>6, PluginNextCases

(* A registered plugin is said to run only when its own activation succeeded, *)
(* whichever of the awaited activations and deactivations settle, in whatever *)
(* order, after it was replaced or removed.                                   *)
THEOREM RunningIsOwn == PluginSpec => []RunningWasActivated
<1>1. PluginInit => RunningInv
  BY DEF PluginInit, RunningInv
<1>2. RegistryInv /\ RunningInv => RunningWasActivated
  BY DEF RegistryInv, RunningInv, RunningWasActivated
<1> QED
  BY <1>1, <1>2, RunningStep, Registry, PTL DEF PluginSpec

-----------------------------------------------------------------------------
(* The hook manager. *)

Entry == [n : Nat, pluginId : Ids, hookType : HookTypes, priority : Nat]
Results == {"continue", "abort", "modify", "throws"}
Pipeline == [hookType : HookTypes, relevant : Seq(Entry), ran : Seq(Entry),
             results : Seq(Results), payload : Nat, done : BOOLEAN]

(* The order handlers run in: by priority, then by age. *)
Precedes(e, f) == e.priority < f.priority \/ (e.priority = f.priority /\ e.n < f.n)
Sorted(s) == \A i, j \in DOMAIN s : i < j => Precedes(s[i], s[j])

(* The manager's list is in running order and has no entry from the future. *)
HooksInv ==
    /\ calls \in Nat
    /\ hooks \in Seq(Entry)
    /\ Sorted(hooks)
    /\ \A i \in DOMAIN hooks : hooks[i].n <= calls

(* The results that end a pipeline of this type. *)
Stops(type, result) == result = "throws" \/ (result = "abort" /\ type = BeforeAction)

(* A pipeline works through a sorted list of exactly what it owes, and its *)
(* payload is the one of the last handler that brought one.                *)
PipelineInv(t, owes) ==
    /\ Sorted(t.relevant)
    /\ ToSet(t.relevant) = owes
    /\ Len(t.results) = Len(t.ran)
    /\ Len(t.ran) <= Len(t.relevant)
    /\ \A i \in 1..Len(t.ran) : t.ran[i] = t.relevant[i]
    /\ t.done => \/ Len(t.ran) = Len(t.relevant)
                 \/ t.results # <<>> /\ Stops(t.hookType, Last(t.results))
    /\ t.hookType # BeforeAction => t.payload = 0
    /\ t.hookType = BeforeAction =>
          /\ (\A i \in 1..Len(t.ran) : t.results[i] # "modify") => t.payload = 0
          /\ \A i \in 1..Len(t.ran) :
                (/\ t.results[i] = "modify"
                 /\ \A j \in 1..Len(t.ran) : t.results[j] = "modify" => j <= i)
                    => t.payload = t.ran[i].n

TriggersInv ==
    /\ triggers \in Seq(Pipeline)
    /\ owed \in Seq(SUBSET Entry)
    /\ Len(owed) = Len(triggers)
    /\ \A k \in 1..Len(triggers) : PipelineInv(triggers[k], owed[k])

(* A filtered list has exactly the entries kept, still in running order. *)
LEMMA FilterSorted ==
    ASSUME NEW s \in Seq(Entry), Sorted(s), NEW kept \in SUBSET DOMAIN s
    PROVE  /\ Filter(s, kept) \in Seq(Entry)
           /\ Sorted(Filter(s, kept))
           /\ ToSet(Filter(s, kept)) = {s[k] : k \in kept}
<1> DEFINE f == Filter(s, kept)
<1>1. DOMAIN s = 1..Len(s) /\ Len(s) \in Nat
  BY LenProperties
<1>2. f \in Seq(Entry) /\ \E g : OrderedPick(f, s, kept, g)
  <2>1. kept \in SUBSET (1..Len(s))
    BY <1>1
  <2> QED
    BY <2>1, FilterFacts
<1> HIDE DEF f
<1>3. DOMAIN f = 1..Len(f)
  BY <1>2, LenProperties
<1>4. PICK g : OrderedPick(f, s, kept, g)
  BY <1>2
<1>5. Sorted(f)
  BY <1>3, <1>4 DEF Sorted, OrderedPick
<1>6. ToSet(f) = {s[k] : k \in kept}
  BY <1>3, <1>4 DEF ToSet, OrderedPick
<1> QED
  BY <1>2, <1>5, <1>6 DEF f

(* push and the stable sort: the new entry is the youngest, so it goes behind *)
(* the entries of its priority, and the list stays in running order.          *)
LEMMA InsertSorted ==
    ASSUME NEW s \in Seq(Entry), Sorted(s), NEW e \in Entry,
           \A i \in DOMAIN s : s[i].n < e.n
    PROVE  LET b == Cardinality({i \in DOMAIN s : s[i].priority <= e.priority})
               t == InsertAt(s, b + 1, e)
           IN  /\ t \in Seq(Entry)
               /\ Sorted(t)
               /\ \A i \in DOMAIN t : t[i] = e \/ \E j \in DOMAIN s : t[i] = s[j]
<1> DEFINE L == {i \in DOMAIN s : s[i].priority <= e.priority}
           b == Cardinality(L)
           t == InsertAt(s, b + 1, e)
<1>1. /\ DOMAIN s = 1..Len(s) /\ Len(s) \in Nat
      /\ \A i \in DOMAIN s : s[i] \in Entry /\ s[i].priority \in Nat /\ s[i].n \in Nat
      /\ e.priority \in Nat /\ e.n \in Nat
  <2>1. DOMAIN s = 1..Len(s) /\ Len(s) \in Nat
    BY LenProperties
  <2>2. \A i \in DOMAIN s : s[i] \in Entry
    BY <2>1, ElementOfSeq
  <2>3. \A x \in Entry : x.priority \in Nat /\ x.n \in Nat
    BY DEF Entry
  <2> QED
    BY <2>1, <2>2, <2>3
<1>2. \A i, j \in DOMAIN s : i <= j => s[i].priority <= s[j].priority
  <2> SUFFICES ASSUME NEW i \in DOMAIN s, NEW j \in DOMAIN s, i <= j
               PROVE  s[i].priority <= s[j].priority
    OBVIOUS
  <2>1. CASE i = j
    BY <2>1, <1>1
  <2>2. CASE i < j
    BY <2>2, <1>1 DEF Sorted, Precedes
  <2> QED
    BY <2>1, <2>2, <1>1
<1>3. b \in 0..Len(s) /\ L = 1..b
  <2>1. L \in SUBSET (1..Len(s))
    BY <1>1
  <2>2. ASSUME NEW k \in L, NEW j \in 1..k PROVE j \in L
    <3>1. j \in DOMAIN s /\ j <= k
      BY <1>1
    <3>2. s[j].priority <= s[k].priority /\ s[k].priority <= e.priority
      BY <3>1, <1>2
    <3> QED
      BY <3>1, <3>2, <1>1
  <2> HIDE DEF L
  <2> QED
    BY <2>1, <2>2, <1>1, InitialInterval
<1>4. \A i \in DOMAIN s : i <= b <=> s[i].priority <= e.priority
  <2>1. \A i \in DOMAIN s : i \in L <=> s[i].priority <= e.priority
    OBVIOUS
  <2>2. \A i \in DOMAIN s : i \in 1..b <=> i <= b
    BY <1>1, <1>3
  <2> HIDE DEF L, b
  <2> QED
    BY <2>1, <2>2, <1>3
<1> HIDE DEF L, b
<1>5. /\ t \in Seq(Entry) /\ Len(t) = Len(s) + 1
      /\ \A i \in 1..(Len(s) + 1) :
            t[i] = IF i <= b THEN s[i] ELSE IF i = b + 1 THEN e ELSE s[i - 1]
  BY <1>3, InsertAtFacts
<1> HIDE DEF t
<1>6. DOMAIN t = 1..(Len(s) + 1)
  BY <1>5, LenProperties
<1>7. ASSUME NEW i \in DOMAIN t, NEW j \in DOMAIN t, i < j PROVE Precedes(t[i], t[j])
  <2>0. b \in Nat /\ i \in Nat /\ j \in Nat /\ i >= 1 /\ j <= Len(s) + 1
    BY <1>1, <1>3, <1>6
  <2>1. CASE i <= b /\ j <= b
    <3>1. t[i] = s[i] /\ t[j] = s[j] /\ i \in DOMAIN s /\ j \in DOMAIN s
      BY <2>0, <2>1, <1>1, <1>3, <1>5, <1>6
    <3> QED
      BY <3>1, <1>7 DEF Sorted
  <2>2. CASE i <= b /\ j = b + 1
    <3>1. t[i] = s[i] /\ t[j] = e /\ i \in DOMAIN s
      BY <2>0, <2>2, <1>1, <1>3, <1>5, <1>6
    <3>2. s[i].priority <= e.priority /\ s[i].n < e.n
      BY <3>1, <2>2, <1>4
    <3> QED
      BY <3>1, <3>2, <1>1 DEF Precedes
  <2>3. CASE i <= b /\ j > b + 1
    <3>1. t[i] = s[i] /\ t[j] = s[j - 1] /\ i \in DOMAIN s /\ j - 1 \in DOMAIN s /\ i < j - 1
      BY <2>0, <2>3, <1>1, <1>3, <1>5, <1>6
    <3> QED
      BY <3>1 DEF Sorted
  <2>4. CASE i = b + 1
    <3>1. t[i] = e /\ t[j] = s[j - 1] /\ j - 1 \in DOMAIN s /\ ~(j - 1 <= b)
      BY <2>0, <2>4, <1>1, <1>3, <1>5, <1>6, <1>7
    <3>2. ~(s[j - 1].priority <= e.priority)
      BY <3>1, <1>4
    <3> QED
      BY <3>1, <3>2, <1>1 DEF Precedes
  <2>5. CASE i > b + 1
    <3>1. /\ t[i] = s[i - 1] /\ t[j] = s[j - 1]
          /\ i - 1 \in DOMAIN s /\ j - 1 \in DOMAIN s /\ i - 1 < j - 1
      BY <2>0, <2>5, <1>1, <1>3, <1>5, <1>6, <1>7
    <3> QED
      BY <3>1 DEF Sorted
  <2> QED
    BY <2>0, <2>1, <2>2, <2>3, <2>4, <2>5, <1>7
<1>8. ASSUME NEW i \in DOMAIN t PROVE t[i] = e \/ \E j \in DOMAIN s : t[i] = s[j]
  <2>0. b \in Nat /\ i \in Nat /\ i >= 1 /\ i <= Len(s) + 1
    BY <1>1, <1>3, <1>6
  <2>1. CASE i <= b
    <3>1. t[i] = s[i] /\ i \in DOMAIN s
      BY <2>0, <2>1, <1>1, <1>3, <1>5, <1>6
    <3> QED
      BY <3>1
  <2>2. CASE i > b + 1
    <3>1. t[i] = s[i - 1] /\ i - 1 \in DOMAIN s
      BY <2>0, <2>2, <1>1, <1>3, <1>5, <1>6
    <3> QED
      BY <3>1
  <2>3. CASE i = b + 1
    BY <2>0, <2>3, <1>5, <1>6
  <2> QED
    BY <2>0, <2>1, <2>2, <2>3
<1>9. Sorted(t)
  BY <1>7 DEF Sorted
<1> QED
  BY <1>5, <1>8, <1>9 DEF t, b, L

(* Every action keeps the manager's list in running order. *)
LEMMA HooksStep == HooksInv /\ [PluginNext]_pluginVars => HooksInv'
<1> SUFFICES ASSUME HooksInv, [PluginNext]_pluginVars PROVE HooksInv'
  OBVIOUS
<1>0. DOMAIN hooks = 1..Len(hooks) /\ Len(hooks) \in Nat
  BY LenProperties DEF HooksInv
<1>e. \A i \in DOMAIN hooks : hooks[i] \in Entry /\ hooks[i].n \in Nat
  <2>1. \A i \in DOMAIN hooks : hooks[i] \in Entry
    BY <1>0, ElementOfSeq DEF HooksInv
  <2> QED
    BY <2>1 DEF Entry
<1>1. ASSUME NEW id \in Ids, NEW type \in HookTypes, NEW p \in Priorities,
             registerHook(id, type, p)
      PROVE  HooksInv'
  <2> DEFINE e == [n |-> calls + 1, pluginId |-> id, hookType |-> type, priority |-> p]
             b == Cardinality({i \in DOMAIN hooks : hooks[i].priority <= e.priority})
  <2>1. p \in Nat /\ calls + 1 \in Nat /\ calls' = calls + 1 /\ calls \in Nat
    BY <1>1, PluginInputs DEF PluginInputs, registerHook, HostCall, HooksInv
  <2>2. e \in Entry /\ e.n = calls + 1 /\ e.priority = p
    BY <2>1 DEF Entry
  <2>3. hooks' = InsertAt(hooks, b + 1, e)
    BY <1>1 DEF registerHook
  <2>4. \A i \in DOMAIN hooks : hooks[i].n < e.n
    BY <2>1, <2>2, <1>e DEF HooksInv
  <2> HIDE DEF e
  <2>5. /\ hooks' \in Seq(Entry)
        /\ Sorted(hooks')
        /\ \A i \in DOMAIN hooks' : hooks'[i] = e \/ \E j \in DOMAIN hooks : hooks'[i] = hooks[j]
    <3> DEFINE t == InsertAt(hooks, b + 1, e)
    <3>1. /\ t \in Seq(Entry)
          /\ Sorted(t)
          /\ \A i \in DOMAIN t : t[i] = e \/ \E j \in DOMAIN hooks : t[i] = hooks[j]
      BY <2>2, <2>4, InsertSorted DEF HooksInv
    <3> HIDE DEF t
    <3>2. hooks' = t
      BY <2>3 DEF t
    <3> QED
      BY <3>1, <3>2, Zenon
  <2>6. ASSUME NEW i \in DOMAIN hooks' PROVE hooks'[i].n <= calls'
    <3>1. CASE hooks'[i] = e
      BY <3>1, <2>1, <2>2
    <3>2. ASSUME NEW j \in DOMAIN hooks, hooks'[i] = hooks[j] PROVE hooks'[i].n <= calls'
      <4>1. hooks[j].n <= calls /\ hooks[j].n \in Nat
        BY <1>e DEF HooksInv
      <4> QED
        BY <3>2, <4>1, <2>1
    <3> QED
      BY <2>5, <3>1, <3>2
  <2> QED
    BY <2>1, <2>5, <2>6 DEF HooksInv
<1>2. ASSUME NEW id \in Ids, unregisterPlugin(id) PROVE HooksInv'
  <2> DEFINE kept == {i \in DOMAIN hooks : hooks[i].pluginId # id}
  <2>1. hooks' = Filter(hooks, kept) /\ calls' = calls + 1 /\ calls \in Nat
    BY <1>2 DEF unregisterPlugin, HostCall, HooksInv
  <2>2. /\ Filter(hooks, kept) \in Seq(Entry)
        /\ Sorted(Filter(hooks, kept))
        /\ ToSet(Filter(hooks, kept)) = {hooks[k] : k \in kept}
    BY FilterSorted DEF HooksInv
  <2>3. \A i \in DOMAIN hooks' : \E k \in DOMAIN hooks : hooks'[i] = hooks[k]
    <3>1. \A i \in DOMAIN hooks' : hooks'[i] \in ToSet(hooks')
      BY DEF ToSet
    <3>2. ToSet(hooks') = {hooks[k] : k \in kept}
      BY <2>1, <2>2
    <3> QED
      BY <3>1, <3>2
  <2>4. ASSUME NEW i \in DOMAIN hooks' PROVE hooks'[i].n <= calls'
    <3>1. PICK k \in DOMAIN hooks : hooks'[i] = hooks[k]
      BY <2>3
    <3>2. hooks[k].n <= calls /\ hooks[k].n \in Nat
      BY <1>e DEF HooksInv
    <3> QED
      BY <3>1, <3>2, <2>1
  <2> HIDE DEF kept
  <2> QED
    BY <2>1, <2>2, <2>4 DEF HooksInv
<1>3. ASSUME hooks' = hooks, calls' = calls \/ HostCall PROVE HooksInv'
  <2>1. calls' \in Nat /\ calls <= calls' /\ calls \in Nat
    BY <1>3 DEF HostCall, HooksInv
  <2>2. \A i \in DOMAIN hooks : hooks[i].n <= calls'
    BY <2>1, <1>e DEF HooksInv
  <2> QED
    BY <1>3, <2>1, <2>2 DEF HooksInv
<1>4. /\ \A m \in Manifests : \A hooked \in BOOLEAN : register(m, hooked) => HooksInv'
      /\ \A id \in Ids : unregister(id) => HooksInv'
      /\ \A id \in Ids : \A op \in {"activate", "deactivate"} : Begin(op, id) => HooksInv'
      /\ \A id \in Ids : \A flag \in BOOLEAN : setEnabled(id, flag) => HooksInv'
      /\ \A ok \in BOOLEAN : HookSettles(ok) => HooksInv'
      /\ \A type \in HookTypes : trigger(type) => HooksInv'
      /\ \A result \in Results : HandlerAnswers(result) => HooksInv'
      /\ UNCHANGED pluginVars => HooksInv'
  BY <1>3 DEF register, unregister, Begin, setEnabled, HookSettles, HooksUntouched, trigger,
              HandlerAnswers, pluginVars
<1> QED
  BY <1>1, <1>2, <1>4, PluginNextCases DEF Results

(* The next handler's answer keeps a pipeline's invariant: it ran the next of *)
(* what the pipeline owes.                                                    *)
LEMMA AnsweredFacts ==
    ASSUME NEW t \in Pipeline, NEW owes, PipelineInv(t, owes),
           Len(t.ran) + 1 \in DOMAIN t.relevant, NEW result \in Results
    PROVE  /\ Answered(t, t.relevant[Len(t.ran) + 1], result) \in Pipeline
           /\ PipelineInv(Answered(t, t.relevant[Len(t.ran) + 1], result), owes)
<1> DEFINE m == Len(t.ran)
           e == t.relevant[m + 1]
           u == Answered(t, e, result)
<1>1. /\ t.relevant \in Seq(Entry) /\ t.ran \in Seq(Entry) /\ t.results \in Seq(Results)
      /\ t.payload \in Nat /\ t.hookType \in HookTypes
  BY DEF Pipeline
<1>2. m \in Nat /\ Len(t.results) = m /\ Len(t.relevant) \in Nat
  BY <1>1, LenProperties DEF PipelineInv
<1>3. DOMAIN t.relevant = 1..Len(t.relevant) /\ m + 1 <= Len(t.relevant)
  BY <1>1, <1>2, LenProperties
<1>4. e \in Entry /\ e.n \in Nat
  <2>1. e \in Entry
    BY <1>1, <1>3, ElementOfSeq
  <2> QED
    BY <2>1 DEF Entry
<1> HIDE DEF e
<1> DEFINE ran == Append(t.ran, e)
           res == Append(t.results, result)
<1>5. /\ ran \in Seq(Entry) /\ Len(ran) = m + 1
      /\ \A i \in 1..m : ran[i] = t.ran[i]
      /\ ran[m + 1] = e
  BY <1>1, <1>4, AppendProperties
<1>6. /\ res \in Seq(Results) /\ Len(res) = m + 1 /\ res # <<>>
      /\ \A i \in 1..m : res[i] = t.results[i]
      /\ res[m + 1] = result
  BY <1>1, <1>2, AppendProperties
<1>7. u = [t EXCEPT !.ran = ran,
                    !.results = res,
                    !.payload = IF t.hookType = BeforeAction /\ result = "modify"
                                  THEN e.n ELSE t.payload,
                    !.done = \/ Len(ran) >= Len(t.relevant)
                             \/ t.hookType = BeforeAction /\ result = "abort"
                             \/ result = "throws"]
  BY DEF Answered, relevantOf
<1> HIDE DEF u, ran, res, m
<1>8. /\ u \in Pipeline
      /\ u.hookType = t.hookType /\ u.relevant = t.relevant /\ u.ran = ran /\ u.results = res
      /\ u.payload = IF t.hookType = BeforeAction /\ result = "modify" THEN e.n ELSE t.payload
      /\ u.done => Len(ran) >= Len(t.relevant) \/ Stops(t.hookType, result)
  BY <1>1, <1>4, <1>5, <1>6, <1>7 DEF Pipeline, Stops
<1>9. \A i \in 1..(m + 1) : i \in 1..m \/ i = m + 1
  BY <1>2
<1>10. Sorted(u.relevant) /\ ToSet(u.relevant) = owes
  BY <1>8 DEF PipelineInv
<1>11. /\ Len(u.results) = Len(u.ran) /\ Len(u.ran) <= Len(u.relevant)
       /\ \A i \in 1..Len(u.ran) : u.ran[i] = u.relevant[i]
  <2>1. \A i \in 1..m : ran[i] = t.relevant[i]
    BY <1>5 DEF PipelineInv, m
  <2> QED
    BY <2>1, <1>3, <1>5, <1>6, <1>8, <1>9 DEF e
<1>12. u.done => \/ Len(u.ran) = Len(u.relevant)
                 \/ u.results # <<>> /\ Stops(u.hookType, Last(u.results))
  <2>1. Last(res) = result
    BY <1>6 DEF Last
  <2> QED
    BY <2>1, <1>2, <1>3, <1>5, <1>6, <1>8
<1>13. u.hookType # BeforeAction => u.payload = 0
  BY <1>8 DEF PipelineInv
<1>14. ASSUME u.hookType = BeforeAction, \A i \in 1..Len(u.ran) : u.results[i] # "modify"
       PROVE  u.payload = 0
  <2>1. result # "modify"
    BY <1>2, <1>5, <1>6, <1>8, <1>14
  <2>2. \A i \in 1..m : t.results[i] # "modify"
    BY <1>2, <1>5, <1>6, <1>8, <1>14
  <2> QED
    BY <2>1, <2>2, <1>8, <1>14 DEF PipelineInv, m
<1>15. ASSUME u.hookType = BeforeAction, NEW i \in 1..Len(u.ran), u.results[i] = "modify",
              \A j \in 1..Len(u.ran) : u.results[j] = "modify" => j <= i
       PROVE  u.payload = u.ran[i].n
  <2>0. i \in 1..(m + 1) /\ u.results = res /\ u.ran = ran /\ Len(u.ran) = m + 1
    BY <1>5, <1>8, <1>15
  <2>1. CASE result = "modify"
    <3>1. m + 1 <= i
      BY <2>0, <2>1, <1>2, <1>6, <1>15
    <3>2. i = m + 1
      BY <3>1, <2>0, <1>2
    <3> QED
      BY <2>0, <2>1, <3>2, <1>5, <1>8, <1>15
  <2>2. CASE result # "modify"
    <3>1. i \in 1..m /\ t.results[i] = "modify"
      BY <2>0, <2>2, <1>6, <1>9, <1>15
    <3>2. \A j \in 1..m : t.results[j] = "modify" => j <= i
      BY <2>0, <1>2, <1>6, <1>15
    <3>3. t.payload = t.ran[i].n
      BY <3>1, <3>2, <1>8, <1>15 DEF PipelineInv, m
    <3> QED
      BY <2>0, <2>2, <3>1, <3>3, <1>5, <1>8
  <2> QED
    BY <2>1, <2>2
<1>16. PipelineInv(u, owes)
  BY <1>10, <1>11, <1>12, <1>13, <1>14, <1>15, Zenon DEF PipelineInv
<1> QED
  BY <1>8, <1>16 DEF u, e, m

(* Every action keeps the pipelines' invariant; what happens to the manager's *)
(* list after a pipeline has started does not reach it.                       *)
LEMMA TriggersStep ==
    HooksInv /\ TriggersInv /\ [PluginNext]_pluginVars => TriggersInv'
<1> SUFFICES ASSUME HooksInv, TriggersInv, [PluginNext]_pluginVars PROVE TriggersInv'
  OBVIOUS
<1>0. /\ Len(triggers) \in Nat /\ DOMAIN triggers = 1..Len(triggers)
      /\ \A k \in 1..Len(triggers) : triggers[k] \in Pipeline
  BY LenProperties, ElementOfSeq DEF TriggersInv
<1>1. ASSUME NEW type \in HookTypes, trigger(type) PROVE TriggersInv'
  <2> DEFINE kept == {i \in DOMAIN hooks : hooks[i].hookType = type}
             relevant == Filter(hooks, kept)
             owes == {h \in ToSet(hooks) : h.hookType = type}
             t == [hookType |-> type, relevant |-> relevant, ran |-> <<>>, results |-> <<>>,
                   payload |-> 0, done |-> relevant = <<>>]
  <2>1. /\ relevant \in Seq(Entry) /\ Sorted(relevant)
        /\ ToSet(relevant) = {hooks[k] : k \in kept}
    BY FilterSorted DEF HooksInv
  <2>2. owes = {hooks[k] : k \in kept}
    BY DEF ToSet
  <2>3. owes \in SUBSET Entry
    <3>1. \A i \in DOMAIN hooks : hooks[i] \in Entry
      BY LenProperties, ElementOfSeq DEF HooksInv
    <3> QED
      BY <2>2, <3>1
  <2>4. triggers' = Append(triggers, t) /\ owed' = Append(owed, owes)
    BY <1>1 DEF trigger, OfType
  <2> HIDE DEF kept, owes, relevant
  <2>5. t \in Pipeline
    <3>1. <<>> \in Seq(Entry) /\ <<>> \in Seq(Results)
      BY EmptySeq
    <3>2. (relevant = <<>>) \in BOOLEAN
      OBVIOUS
    <3> QED
      BY <2>1, <3>1, <3>2 DEF Pipeline
  <2>6. PipelineInv(t, owes)
    <3>1. Len(relevant) \in Nat /\ (relevant = <<>> => Len(relevant) = 0)
      BY <2>1, LenProperties
    <3>2. Len(<<>>) = 0
      OBVIOUS
    <3>3. /\ t.relevant = relevant /\ t.ran = <<>> /\ t.results = <<>> /\ t.payload = 0
          /\ t.done = (relevant = <<>>)
      OBVIOUS
    <3> HIDE DEF t
    <3>4. 1..Len(t.ran) = {}
      BY <3>3
    <3>5. t.done => Len(t.ran) = Len(t.relevant)
      BY <3>1, <3>2, <3>3
    <3>6. Sorted(t.relevant) /\ ToSet(t.relevant) = owes
      BY <2>1, <2>2, <3>3
    <3>7. Len(t.results) = Len(t.ran) /\ Len(t.ran) <= Len(t.relevant)
      BY <3>1, <3>2, <3>3
    <3> QED
      BY <3>3, <3>4, <3>5, <3>6, <3>7 DEF PipelineInv
  <2> HIDE DEF t
  <2>7. /\ triggers' \in Seq(Pipeline) /\ Len(triggers') = Len(triggers) + 1
        /\ \A k \in 1..Len(triggers) : triggers'[k] = triggers[k]
        /\ triggers'[Len(triggers) + 1] = t
    BY <2>4, <2>5, AppendProperties DEF TriggersInv
  <2>8. /\ owed' \in Seq(SUBSET Entry) /\ Len(owed') = Len(triggers) + 1
        /\ \A k \in 1..Len(triggers) : owed'[k] = owed[k]
        /\ owed'[Len(triggers) + 1] = owes
    BY <2>3, <2>4, AppendProperties DEF TriggersInv
  <2>9. ASSUME NEW k \in 1..Len(triggers') PROVE PipelineInv(triggers'[k], owed'[k])
    <3>1. k \in 1..Len(triggers) \/ k = Len(triggers) + 1
      BY <1>0, <2>7
    <3>2. CASE k \in 1..Len(triggers)
      BY <3>2, <2>7, <2>8 DEF TriggersInv
    <3>3. CASE k = Len(triggers) + 1
      BY <3>3, <2>6, <2>7, <2>8
    <3> QED
      BY <3>1, <3>2, <3>3
  <2> QED
    BY <2>7, <2>8, <2>9 DEF TriggersInv
<1>2. ASSUME NEW result \in Results, HandlerAnswers(result) PROVE TriggersInv'
  <2>1. PICK k \in DOMAIN triggers :
           /\ Len(triggers[k].ran) + 1 \in DOMAIN triggers[k].relevant
           /\ triggers' = [triggers EXCEPT ![k] =
                 Answered(triggers[k], triggers[k].relevant[Len(triggers[k].ran) + 1], result)]
    BY <1>2 DEF HandlerAnswers, relevantOf
  <2> DEFINE u == Answered(triggers[k], triggers[k].relevant[Len(triggers[k].ran) + 1], result)
  <2>2. k \in 1..Len(triggers) /\ triggers[k] \in Pipeline /\ PipelineInv(triggers[k], owed[k])
    BY <1>0 DEF TriggersInv
  <2>3. u \in Pipeline /\ PipelineInv(u, owed[k])
    BY <2>1, <2>2, AnsweredFacts
  <2>4. triggers' = [triggers EXCEPT ![k] = u] /\ owed' = owed
    BY <1>2, <2>1 DEF HandlerAnswers
  <2> HIDE DEF u
  <2>5. /\ triggers' \in Seq(Pipeline) /\ Len(triggers') = Len(triggers)
        /\ \A i \in 1..Len(triggers) : triggers'[i] = IF i = k THEN u ELSE triggers[i]
    BY <2>2, <2>3, <2>4, ExceptSeq DEF TriggersInv
  <2> QED
    BY <2>3, <2>4, <2>5 DEF TriggersInv
<1>3. UNCHANGED <<triggers, owed>> => TriggersInv'
  BY DEF TriggersInv
<1>4. /\ \A m \in Manifests : \A hooked \in BOOLEAN :
            register(m, hooked) => UNCHANGED <<triggers, owed>>
      /\ \A id \in Ids : unregister(id) => UNCHANGED <<triggers, owed>>
      /\ \A id \in Ids : \A op \in {"activate", "deactivate"} :
            Begin(op, id) => UNCHANGED <<triggers, owed>>
      /\ \A id \in Ids : \A flag \in BOOLEAN : setEnabled(id, flag) => UNCHANGED <<triggers, owed>>
      /\ \A ok \in BOOLEAN : HookSettles(ok) => UNCHANGED <<triggers, owed>>
      /\ \A id \in Ids : \A type \in HookTypes : \A p \in Priorities :
            registerHook(id, type, p) => UNCHANGED <<triggers, owed>>
      /\ \A id \in Ids : unregisterPlugin(id) => UNCHANGED <<triggers, owed>>
      /\ UNCHANGED pluginVars => UNCHANGED <<triggers, owed>>
  BY DEF register, unregister, Begin, setEnabled, HookSettles, HooksUntouched, registerHook,
         unregisterPlugin, pluginVars
<1> QED
  BY <1>1, <1>2, <1>3, <1>4, PluginNextCases DEF Results

(* A pipeline runs exactly the handlers that were registered when it started, *)
(* in running order, all of them unless one stops it, and hands on the last   *)
(* payload a before_action handler brought, whatever is registered and        *)
(* unregistered while it waits.                                               *)
THEOREM TriggersFaithful == PluginSpec => []TriggerFaithful
<1>1. PluginInit => HooksInv /\ TriggersInv
  <2> SUFFICES ASSUME PluginInit PROVE HooksInv /\ TriggersInv
    OBVIOUS
  <2>1. hooks \in Seq(Entry) /\ triggers \in Seq(Pipeline) /\ owed \in Seq(SUBSET Entry)
    BY EmptySeq DEF PluginInit
  <2>2. DOMAIN hooks = {} /\ Len(triggers) = 0 /\ Len(owed) = 0
    BY DEF PluginInit
  <2> QED
    BY <2>1, <2>2 DEF PluginInit, HooksInv, TriggersInv, Sorted
<1>2. TriggersInv => TriggerFaithful
  <2> SUFFICES ASSUME TriggersInv, NEW k \in DOMAIN triggers
               PROVE  LET t == triggers[k]
                          stopped == t.results # <<>> /\ Stops(t.hookType, Last(t.results))
                          modifiers == {i \in DOMAIN t.ran : t.results[i] = "modify"}
                      IN  /\ ToSet(t.ran) \subseteq owed[k]
                          /\ t.done /\ ~stopped => ToSet(t.ran) = owed[k]
                          /\ \A i, j \in DOMAIN t.ran : i < j =>
                                \/ t.ran[i].priority < t.ran[j].priority
                                \/ /\ t.ran[i].priority = t.ran[j].priority
                                   /\ t.ran[i].n < t.ran[j].n
                          /\ t.hookType # BeforeAction => t.payload = 0
                          /\ t.hookType = BeforeAction =>
                                /\ modifiers = {} => t.payload = 0
                                /\ \A i \in modifiers :
                                      (\A j \in modifiers : j <= i) => t.payload = t.ran[i].n
    BY DEF TriggerFaithful, Stops
  <2> DEFINE t == triggers[k]
             stopped == t.results # <<>> /\ Stops(t.hookType, Last(t.results))
             modifiers == {i \in DOMAIN t.ran : t.results[i] = "modify"}
  <2>1. t \in Pipeline /\ PipelineInv(t, owed[k])
    BY LenProperties, ElementOfSeq DEF TriggersInv
  <2> HIDE DEF t
  <2>2. t.ran \in Seq(Entry) /\ t.relevant \in Seq(Entry)
    BY <2>1 DEF Pipeline
  <2>3. /\ DOMAIN t.ran = 1..Len(t.ran) /\ Len(t.ran) \in Nat
        /\ DOMAIN t.relevant = 1..Len(t.relevant) /\ Len(t.relevant) \in Nat
    BY <2>2, LenProperties
  <2>4. /\ Len(t.ran) <= Len(t.relevant) /\ ToSet(t.relevant) = owed[k] /\ Sorted(t.relevant)
        /\ \A i \in 1..Len(t.ran) : t.ran[i] = t.relevant[i]
    BY <2>1 DEF PipelineInv
  <2>5. \A i \in DOMAIN t.ran : i \in DOMAIN t.relevant /\ t.ran[i] = t.relevant[i]
    BY <2>3, <2>4
  <2>6. ToSet(t.ran) \subseteq owed[k]
    BY <2>4, <2>5 DEF ToSet
  <2>7. t.done /\ ~stopped => ToSet(t.ran) = owed[k]
    <3> SUFFICES ASSUME t.done, ~stopped PROVE ToSet(t.ran) = owed[k]
      OBVIOUS
    <3>1. Len(t.ran) = Len(t.relevant)
      BY <2>1 DEF PipelineInv
    <3>2. DOMAIN t.ran = DOMAIN t.relevant
      BY <3>1, <2>3
    <3> QED
      BY <3>2, <2>4, <2>5 DEF ToSet
  <2>8. \A i, j \in DOMAIN t.ran : i < j => Precedes(t.ran[i], t.ran[j])
    BY <2>4, <2>5 DEF Sorted
  <2>9. t.hookType # BeforeAction => t.payload = 0
    BY <2>1 DEF PipelineInv
  <2>10. t.hookType = BeforeAction =>
            /\ modifiers = {} => t.payload = 0
            /\ \A i \in modifiers : (\A j \in modifiers : j <= i) => t.payload = t.ran[i].n
    BY <2>1, <2>3 DEF PipelineInv
  <2> QED
    BY <2>6, <2>7, <2>8, <2>9, <2>10 DEF Precedes, t
<1> QED
  BY <1>1, <1>2, HooksStep, TriggersStep, PTL DEF PluginSpec
=============================================================================
