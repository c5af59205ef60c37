----------------------------- MODULE RightsProofs -----------------------------
(***************************************************************************)
(* Theorems about who may do and see what: the access policy (the places   *)
(* where it is written down agree), accounts (an administrator is always   *)
(* left, and what a user holds was given or approved), and answers (one    *)
(* that is seen again rests on what may be read now).  The last section    *)
(* carries these, and those on sessions, rollout and moves, over to the    *)
(* specification that puts the components beside each other.               *)
(***************************************************************************)
EXTENDS MCAccess, SessionsProofs, DepartmentProofs, FiniteSetTheorems, TLAPS

-----------------------------------------------------------------------------
(* Access policy: types *)

LEMMA ProfileParts ==
  ASSUME NEW p \in Profile
  PROVE  /\ p.roles \in SUBSET {"admin", "viewer"} /\ p.units \in SUBSET Units
         /\ p.clearance \in ClearanceLevels /\ p.sites \in SUBSET Sites
         /\ \A rs \in SUBSET {"admin", "viewer"} : [p EXCEPT !.roles = rs] \in Profile
         /\ \A us \in SUBSET Units : [p EXCEPT !.units = us] \in Profile
         /\ \A level \in ClearanceLevels : [p EXCEPT !.clearance = level] \in Profile
         /\ \A ss \in SUBSET Sites : [p EXCEPT !.sites = ss] \in Profile
  BY DEF Profile

LEMMA RecordParts ==
  ASSUME NEW r \in Record
  PROVE  /\ r.units \in SUBSET (Units \cup {SharedUnit})
         /\ r.level \in ClearanceLevels \cup {"missing"}
         /\ r.site \in Sites \cup {NoValue}
         /\ \A us \in SUBSET (Units \cup {SharedUnit}) : [r EXCEPT !.units = us] \in Record
         /\ \A level \in ClearanceLevels \cup {"missing"} : [r EXCEPT !.level = level] \in Record
         /\ \A site \in Sites \cup {NoValue} : [r EXCEPT !.site = site] \in Record
  BY DEF Record

LEMMA PolicyTypeInit == PolicyInit => PolicyTypeOK
  <1>1. NewProfile \in Profile
    BY DEF NewProfile, Profile, ClearanceLevels
  <1>2. [units |-> {}, level |-> "internal", site |-> NoValue] \in Record
    BY DEF Record, ClearanceLevels
  <1> QED
    BY <1>1, <1>2 DEF PolicyInit, PolicyTypeOK

LEMMA PolicyTypeNext ==
  ASSUME PolicyTypeOK, [PolicyNext]_policyVars
  PROVE  PolicyTypeOK'
  <1>1. profile \in Profile /\ record \in Record
    BY DEF PolicyTypeOK
  <1>2. ASSUME NEW p \in Profile, ChangeProfile(p)  PROVE PolicyTypeOK'
    BY <1>2 DEF ChangeProfile, PolicyTypeOK
  <1>3. ASSUME NEW r \in Record, Reclassify(r)  PROVE PolicyTypeOK'
    BY <1>3 DEF Reclassify, PolicyTypeOK
  <1>4. CASE \E rs \in SUBSET {"admin", "viewer"} : ChangeRoles(rs)
    BY <1>1, <1>2, <1>4, ProfileParts DEF ChangeRoles
  <1>5. CASE \E us \in SUBSET Units : ChangeUnits(us)
    BY <1>1, <1>2, <1>5, ProfileParts DEF ChangeUnits
  <1>6. CASE \E level \in ClearanceLevels : ChangeClearance(level)
    BY <1>1, <1>2, <1>6, ProfileParts DEF ChangeClearance
  <1>7. CASE \E ss \in SUBSET Sites : ChangeSites(ss)
    BY <1>1, <1>2, <1>7, ProfileParts DEF ChangeSites
  <1>8. CASE AcceptQuestion
    BY <1>8 DEF AcceptQuestion, PolicyTypeOK
  <1>9. CASE \E us \in SUBSET (Units \cup {SharedUnit}) : ShareWith(us)
    BY <1>1, <1>3, <1>9, RecordParts DEF ShareWith
  <1>10. CASE \E level \in ClearanceLevels \cup {"missing"} : SetLevel(level)
    BY <1>1, <1>3, <1>10, RecordParts DEF SetLevel
  <1>11. CASE \E site \in Sites \cup {NoValue} : SetSite(site)
    BY <1>1, <1>3, <1>11, RecordParts DEF SetSite
  <1>12. CASE UNCHANGED policyVars
    BY <1>12 DEF policyVars, PolicyTypeOK
  <1> QED
    BY <1>4, <1>5, <1>6, <1>7, <1>8, <1>9, <1>10, <1>11, <1>12 DEF PolicyNext

\* Types of the variables.
THEOREM PolicyTypes == PolicySpec => []PolicyTypeOK
  BY PolicyTypeInit, PolicyTypeNext, PTL DEF PolicySpec

-----------------------------------------------------------------------------
(* Access policy: the places agree *)

\* The number of a level, by cases.
LEMMA Ranks ==
  /\ Rank["public"] = 0 /\ Rank["internal"] = 1 /\ Rank["confidential"] = 2
  /\ \A level \in ClearanceLevels : Rank[level] \in 0..2
  /\ \A level \in ClearanceLevels : Rank["confidential"] <= Rank[level] <=> level = "confidential"
  BY DEF Rank, ClearanceLevels

LEMMA Agreement ==
  ASSUME NEW p \in Profile, p.roles # {}, NEW r \in Record
  PROVE  /\ MayOpen(p, r) <=> FilterPasses(p, r)
         /\ BomFilter(p, r) <=> FilterPasses(p, r)
         /\ Listed(p, r) <=> FilterPasses(p, r)
         /\ strictSites => (KeptInHistory(p, r) <=> FilterPasses(p, r))
         /\ InAccessScope(p, r) <=> FilterPasses(p, r) /\ Governed(r)
  <1>1. p.clearance \in ClearanceLevels
    BY ProfileParts
  <1>2. MayOpen(p, r) <=> FilterPasses(p, r)
    BY DEF MayOpen, FilterPasses
  <1>3. Listed(p, r) <=> FilterPasses(p, r)
    BY DEF Listed, FilterPasses
  <1>4. r.level = "missing" => (Cleared(p, r) <=> p.clearance = "confidential")
    BY <1>1, Ranks DEF Cleared, SecurityLevel
  <1>5. BomFilter(p, r) <=> FilterPasses(p, r)
    BY <1>4 DEF BomFilter, FilterPasses
  <1>6. strictSites => (SiteFilter(p, r) <=> r.site \in p.sites)
    BY DEF SiteFilter
  <1>7. strictSites => (KeptInHistory(p, r) <=> FilterPasses(p, r))
    BY <1>6 DEF KeptInHistory, FilterPasses
  <1>8. r.site # NoValue => (SiteFilter(p, r) <=> r.site \in p.sites)
    BY DEF SiteFilter
  <1>9. InAccessScope(p, r) <=> FilterPasses(p, r) /\ Governed(r)
    BY <1>8 DEF InAccessScope, FilterPasses, Governed
  <1> QED
    BY <1>2, <1>3, <1>5, <1>7, <1>9

\* For any departments and sites: search, downloads, parts lists, lists of documents and
\* the history agree.
THEOREM PoliciesAgreeAlways == PolicySpec => []PoliciesAgree
  <1>1. PolicyTypeOK => PoliciesAgree
    <2> SUFFICES ASSUME PolicyTypeOK, profile.roles # {}
                 PROVE  PoliciesAgree
      BY DEF PoliciesAgree
    <2>1. profile \in Profile /\ record \in Record
      BY DEF PolicyTypeOK
    <2>2. /\ MayOpen(profile, record) <=> FilterPasses(profile, record)
          /\ BomFilter(profile, record) <=> FilterPasses(profile, record)
          /\ Listed(profile, record) <=> FilterPasses(profile, record)
          /\ strictSites => (KeptInHistory(profile, record) <=> FilterPasses(profile, record))
          /\ InAccessScope(profile, record) <=> FilterPasses(profile, record) /\ Governed(record)
      BY <2>1, Agreement
    <2>3. /\ MayOpen(profile, record) \in BOOLEAN /\ FilterPasses(profile, record) \in BOOLEAN
          /\ BomFilter(profile, record) \in BOOLEAN /\ Listed(profile, record) \in BOOLEAN
          /\ KeptInHistory(profile, record) \in BOOLEAN
          /\ InAccessScope(profile, record) \in BOOLEAN
          /\ (FilterPasses(profile, record) /\ Governed(record)) \in BOOLEAN
      BY DEF MayOpen, FilterPasses, BomFilter, Listed, KeptInHistory, InAccessScope
    <2>4. \A x, y \in BOOLEAN : (x <=> y) => x = y
      OBVIOUS
    <2>5. MayOpen(profile, record) = FilterPasses(profile, record)
      BY <2>2, <2>3, <2>4, Zenon
    <2>6. BomFilter(profile, record) = FilterPasses(profile, record)
      BY <2>2, <2>3, <2>4, Zenon
    <2>7. Listed(profile, record) = FilterPasses(profile, record)
      BY <2>2, <2>3, <2>4, Zenon
    <2>8. strictSites => KeptInHistory(profile, record) = FilterPasses(profile, record)
      BY <2>2, <2>3, <2>4, Zenon
    <2>9. InAccessScope(profile, record) = (FilterPasses(profile, record) /\ Governed(record))
      BY <2>2, <2>3, <2>4, Zenon
    <2> QED
      BY <2>5, <2>6, <2>7, <2>8, <2>9, Zenon DEF PoliciesAgree
  <1> QED
    BY <1>1, PolicyTypes, PTL

\* In strict mode a denied document is reported as restricted, and only a denied one.
THEOREM DenialIsExplainedAlways == PolicySpec => []DenialIsExplained
  <1>1. DenialIsExplained
    <2> SUFFICES ASSUME strictSites, profile.roles # {}, ~IsAdmin(profile)
                 PROVE  ProbeBlocks(profile, record) = ~FilterPasses(profile, record)
      BY DEF DenialIsExplained
    <2>1. ProbeBlocks(profile, record) <=> ~FilterPasses(profile, record)
      BY DEF ProbeBlocks, FilterPasses, SiteFilter
    <2>2. ProbeBlocks(profile, record) \in BOOLEAN
      BY DEF ProbeBlocks
    <2> QED
      BY <2>1, <2>2, Zenon
  <1> QED
    BY <1>1, PTL

\* The effective actor may open nothing that one of the two may not.
LEMMA EffectiveOpens ==
  ASSUME NEW c \in Profile, NEW q \in Profile, NEW r \in Record,
         MayOpen(EffectiveActor(c, q), r)
  PROVE  MayOpen(c, r) /\ MayOpen(q, r)
  <1> DEFINE e == EffectiveActor(c, q)
  <1>1. /\ "admin" \in e.roles <=> "admin" \in c.roles /\ "admin" \in q.roles
        /\ e.units = IF IsAdmin(c) THEN q.units ELSE q.units \cap c.units
        /\ e.clearance = IF Rank[q.clearance] < Rank[c.clearance] THEN q.clearance
                                                                  ELSE c.clearance
        /\ e.sites = IF IsAdmin(c) THEN q.sites ELSE q.sites \cap c.sites
    BY DEF EffectiveActor, IsAdmin
  <1> HIDE DEF e
  <1>2. /\ c.clearance \in ClearanceLevels /\ q.clearance \in ClearanceLevels
        /\ Rank[c.clearance] \in 0..2 /\ Rank[q.clearance] \in 0..2
    BY ProfileParts, Ranks
  <1>3. SecurityLevel(r) \in ClearanceLevels /\ Rank[SecurityLevel(r)] \in 0..2
    BY RecordParts, Ranks DEF SecurityLevel, ClearanceLevels
  <1>4. Rank[e.clearance] <= Rank[q.clearance] /\ Rank[e.clearance] <= Rank[c.clearance]
    BY <1>1, <1>2
  <1>5. Rank[e.clearance] \in 0..2
    BY <1>1, <1>2
  <1>6. CASE "admin" \in c.roles /\ "admin" \in q.roles
    BY <1>6 DEF MayOpen, IsAdmin
  <1>7. CASE ~("admin" \in c.roles /\ "admin" \in q.roles)
    <2>1. SharedWith(e, r) /\ Cleared(e, r) /\ SiteFilter(e, r)
      BY <1>1, <1>7 DEF MayOpen, IsAdmin, e
    <2>2. Cleared(c, r) /\ Cleared(q, r)
      BY <1>2, <1>3, <1>4, <1>5, <2>1 DEF Cleared
    <2>3. e.units \subseteq q.units /\ e.sites \subseteq q.sites
      BY <1>1
    <2>4. SharedWith(q, r) /\ SiteFilter(q, r)
      BY <2>1, <2>3 DEF SharedWith, SiteFilter
    <2>5. ~IsAdmin(c) => e.units \subseteq c.units /\ e.sites \subseteq c.sites
      BY <1>1
    <2>6. ~IsAdmin(c) => SharedWith(c, r) /\ SiteFilter(c, r)
      BY <2>1, <2>5 DEF SharedWith, SiteFilter
    <2> QED
      BY <2>2, <2>4, <2>6 DEF MayOpen
  <1> QED
    BY <1>6, <1>7

\* For any departments and sites, whatever changes between question and answer.
THEOREM RightsNeverAddUpAlways == PolicySpec => []RightsNeverAddUp
  <1>1. PolicyTypeOK => RightsNeverAddUp
    BY EffectiveOpens DEF PolicyTypeOK, RightsNeverAddUp
  <1> QED
    BY <1>1, PolicyTypes, PTL

-----------------------------------------------------------------------------
(* Accounts: types *)

LEMMA AccountParts ==
  ASSUME NEW x \in Account
  PROVE  /\ x.state \in {"absent", "present", "deleted"}
         /\ x.active \in BOOLEAN /\ x.admin \in BOOLEAN
         /\ \A b \in BOOLEAN :
              /\ [x EXCEPT !.active = b] \in Account
              /\ [x EXCEPT !.admin = b] \in Account
              /\ [x EXCEPT !.active = b] = [state |-> x.state, active |-> b, admin |-> x.admin]
              /\ [x EXCEPT !.admin = b] = [state |-> x.state, active |-> x.active, admin |-> b]
  <1>1. x.state \in {"absent", "present", "deleted"} /\ x.active \in BOOLEAN /\ x.admin \in BOOLEAN
    BY Zenon DEF Account
  <1>2. \A b \in BOOLEAN :
          /\ [x EXCEPT !.active = b] = [state |-> x.state, active |-> b, admin |-> x.admin]
          /\ [x EXCEPT !.admin = b] = [state |-> x.state, active |-> x.active, admin |-> b]
    BY DEF Account
  <1>3. \A s \in {"absent", "present", "deleted"}, b, c \in BOOLEAN :
          [state |-> s, active |-> b, admin |-> c] \in Account
    BY DEF Account
  <1> QED
    BY <1>1, <1>2, <1>3

LEMMA WishParts ==
  ASSUME NEW w \in Wish
  PROVE  /\ w.type = "security" => w.value \in Levels
         /\ w.type # "security" => w.type = "department" /\ w.value \in Departments
         /\ w = [type |-> w.type, value |-> w.value]
  BY DEF Wish

LEMMA WishForms ==
  /\ \A level \in Levels : [type |-> "security", value |-> level] \in Wish
  /\ \A d \in Departments : [type |-> "department", value |-> d] \in Wish
  BY DEF Wish

LEMMA RequestParts ==
  ASSUME NEW r \in AccessRequest
  PROVE  /\ r # Unused /\ r.status \in Status /\ r.user \in UserIds /\ r.wish \in Wish
         /\ \A s \in Status : /\ [r EXCEPT !.status = s] \in AccessRequest
                              /\ [r EXCEPT !.status = s].status = s
                              /\ [r EXCEPT !.status = s].user = r.user
                              /\ [r EXCEPT !.status = s].wish = r.wish
  <1>1. r.status \in Status /\ r.user \in UserIds /\ r.wish \in Wish
    BY DEF AccessRequest
  <1>2. r # Unused
    BY <1>1 DEF Unused, Status
  <1>3. \A s \in Status : /\ [r EXCEPT !.status = s] \in AccessRequest
                          /\ [r EXCEPT !.status = s].status = s
                          /\ [r EXCEPT !.status = s].user = r.user
                          /\ [r EXCEPT !.status = s].wish = r.wish
    BY DEF AccessRequest
  <1> QED
    BY <1>1, <1>2, <1>3

\* What a transaction in flight holds, by its step.
LEMMA TxnParts ==
  ASSUME AccountsTypeOK, NEW t \in Transactions
  PROVE  /\ txn[t].step = "admin" =>
              txn[t] \in AdminTxn /\ txn[t].user \in UserIds /\ txn[t].operation \in Operation
         /\ txn[t].step = "create" =>
              txn[t] \in CreateTxn /\ txn[t].user \in UserIds /\ txn[t].wish \in Wish
         /\ txn[t].step = "decide" =>
              /\ txn[t] \in DecideTxn /\ txn[t].id \in RequestIds
              /\ txn[t].decision \in {"approved", "rejected"} /\ txn[t].read \in Status
         /\ txn[t].step = "transfer" =>
              /\ txn[t].from \in Departments /\ txn[t].to \in Departments
              /\ txn[t].users \in SUBSET UserIds
         /\ txn[t].step \in {"idle", "admin", "create", "decide", "transfer"}
  <1>1. txn[t] \in AdminTxn \cup CreateTxn \cup DecideTxn \cup TransferTxn \cup {NoTxn}
    BY DEF AccountsTypeOK, Txn
  <1>2. CASE txn[t] \in AdminTxn
    BY <1>2 DEF AdminTxn
  <1>3. CASE txn[t] \in CreateTxn
    BY <1>3 DEF CreateTxn
  <1>4. CASE txn[t] \in DecideTxn
    BY <1>4 DEF DecideTxn
  <1>5. CASE txn[t] \in TransferTxn
    BY <1>5 DEF TransferTxn
  <1>6. CASE txn[t] = NoTxn
    BY <1>6 DEF NoTxn
  <1> QED
    BY <1>1, <1>2, <1>3, <1>4, <1>5, <1>6

LEMMA TxnKinds ==
  /\ AdminTxn \subseteq Txn /\ CreateTxn \subseteq Txn /\ DecideTxn \subseteq Txn
  /\ TransferTxn \subseteq Txn /\ NoTxn \in Txn
  BY DEF Txn

LEMMA TxnTypes ==
  ASSUME AccountsTypeOK, NEW t \in Transactions,
         NEW work \in Txn,
         txn' = [txn EXCEPT ![t] = work]
  PROVE  /\ txn' \in [Transactions -> Txn]
         /\ txn'[t] = work
         /\ \A s \in Transactions \ {t} : txn'[s] = txn[s]
  BY DEF AccountsTypeOK

\* Where an account is written.
LEMMA AccountWrite ==
  ASSUME AccountsTypeOK, NEW u \in UserIds, NEW x \in Account,
         account' = [account EXCEPT ![u] = x]
  PROVE  /\ account' \in [UserIds -> Account] /\ account'[u] = x
         /\ \A v \in UserIds \ {u} : account'[v] = account[v]
         /\ \A v \in UserIds \ {u} : ActiveAdmin(v)' <=> ActiveAdmin(v)
  BY DEF AccountsTypeOK, ActiveAdmin

LEMMA AccountsTypeInit == AccountsInit => AccountsTypeOK
  <1>1. \A x \in [state : {"present"}, active : {TRUE}, admin : BOOLEAN]
                   \cup [state : {"absent"}, active : {TRUE}, admin : {FALSE}] : x \in Account
    <2>1. ASSUME NEW x \in [state : {"present"}, active : {TRUE}, admin : BOOLEAN]
          PROVE  x \in Account
      <3>1. x.state = "present" /\ x.active \in BOOLEAN /\ x.admin \in BOOLEAN
        OBVIOUS
      <3>2. x = [state |-> x.state, active |-> x.active, admin |-> x.admin]
        OBVIOUS
      <3> QED
        BY <3>1, <3>2 DEF Account
    <2>2. ASSUME NEW x \in [state : {"absent"}, active : {TRUE}, admin : {FALSE}]
          PROVE  x \in Account
      <3>1. x.state = "absent" /\ x.active \in BOOLEAN /\ x.admin \in BOOLEAN
        OBVIOUS
      <3>2. x = [state |-> x.state, active |-> x.active, admin |-> x.admin]
        OBVIOUS
      <3> QED
        BY <3>1, <3>2 DEF Account
    <2> QED
      BY <2>1, <2>2
  <1>2. AccountsInit => account \in [UserIds -> Account]
    <2>1. [state : {"present"}, active : {TRUE}, admin : BOOLEAN]
            \cup [state : {"absent"}, active : {TRUE}, admin : {FALSE}] \subseteq Account
      BY <1>1
    <2> QED
      BY <2>1 DEF AccountsInit
  <1>3. AccountsInit => /\ clearance \in [UserIds -> Levels \cup {NoLevel}]
                        /\ membership \in [UserIds -> SUBSET Departments]
                        /\ accessRequest \in [RequestIds -> AccessRequest \cup {Unused}]
                        /\ txn \in [Transactions -> Txn]
                        /\ adminLock \in Transactions \cup {NoTransaction}
                        /\ given \subseteq UserIds \X Wish /\ overtaken \subseteq RequestIds
                        /\ came \subseteq UserIds \X Departments \X Departments
                        /\ gifts = 0
    BY TxnKinds DEF AccountsInit
  <1>4. 0 \in 0..MaxGifts
    BY AccountsAssumptions DEF AccountsAssumptions
  <1> QED
    BY <1>2, <1>3, <1>4 DEF AccountsTypeOK

LEMMA CommitAdminType ==
  ASSUME AccountsTypeOK, NEW t \in Transactions, CommitAdmin(t)
  PROVE  AccountsTypeOK'
  <1>1. txn[t].user \in UserIds /\ txn[t].operation \in Operation
    BY TxnParts DEF CommitAdmin
  <1>2. PICK u : u = txn[t].user
    OBVIOUS
  <1>3. u \in UserIds /\ account[u] \in Account
    BY <1>1, <1>2 DEF AccountsTypeOK
  <1>4. /\ [account[u] EXCEPT !.active = FALSE] \in Account
        /\ [account[u] EXCEPT !.admin = FALSE] \in Account
        /\ [state |-> "deleted", active |-> FALSE, admin |-> FALSE] \in Account
    BY <1>3, AccountParts DEF Account
  <1>5. account' \in [UserIds -> Account]
    BY <1>1, <1>2, <1>3, <1>4 DEF CommitAdmin, Operation, AccountsTypeOK
  <1>6. txn' \in [Transactions -> Txn]
    BY TxnTypes, TxnKinds DEF CommitAdmin, End
  <1>7. accessRequest' \in [RequestIds -> AccessRequest \cup {Unused}]
    <2>1. \A q \in RequestIds : accessRequest[q] \in AccessRequest =>
            [accessRequest[q] EXCEPT !.status = "rejected"] \in AccessRequest
      BY RequestParts DEF Status
    <2>2. \A q \in RequestIds : accessRequest[q].status = "pending" =>
                                  accessRequest[q] \in AccessRequest
      BY DEF AccountsTypeOK, Unused
    <2> QED
      BY <2>1, <2>2 DEF CommitAdmin, AccountsTypeOK
  <1>8. /\ clearance' \in [UserIds -> Levels \cup {NoLevel}]
        /\ membership' \in [UserIds -> SUBSET Departments]
    BY DEF CommitAdmin, AccountsTypeOK
  <1> QED
    BY <1>5, <1>6, <1>7, <1>8 DEF CommitAdmin, AccountsTypeOK

LEMMA CommitDecideType ==
  ASSUME AccountsTypeOK, NEW t \in Transactions, CommitDecide(t),
         accessRequest[txn[t].id] # Unused
  PROVE  AccountsTypeOK'
  <1>1. /\ txn[t].id \in RequestIds /\ txn[t].decision \in {"approved", "rejected"}
    BY TxnParts DEF CommitDecide
  <1>2. PICK q : q = txn[t].id
    OBVIOUS
  <1>3. q \in RequestIds /\ accessRequest[q] \in AccessRequest
    BY <1>1, <1>2 DEF AccountsTypeOK
  <1>4. accessRequest[q].user \in UserIds /\ accessRequest[q].wish \in Wish
    BY <1>3, RequestParts
  <1>5. [accessRequest[q] EXCEPT !.status = txn[t].decision] \in AccessRequest
    BY <1>1, <1>3, RequestParts DEF Status
  <1>6. accessRequest' \in [RequestIds -> AccessRequest \cup {Unused}]
    BY <1>2, <1>3, <1>5 DEF CommitDecide, AccountsTypeOK
  <1>7. /\ clearance' \in [UserIds -> Levels \cup {NoLevel}]
        /\ membership' \in [UserIds -> SUBSET Departments]
    <2>1. /\ accessRequest[q].wish.type = "security" => accessRequest[q].wish.value \in Levels
          /\ accessRequest[q].wish.type # "security" => accessRequest[q].wish.value \in Departments
      BY <1>4, WishParts
    <2> QED
      BY <1>2, <1>4, <2>1 DEF CommitDecide, Apply, AccountsTypeOK
  <1>8. txn' \in [Transactions -> Txn]
    BY TxnTypes, TxnKinds DEF CommitDecide, End
  <1>9. overtaken' \subseteq RequestIds
    BY <1>1 DEF CommitDecide, AccountsTypeOK
  <1> QED
    BY <1>6, <1>7, <1>8, <1>9 DEF CommitDecide, AccountsTypeOK

LEMMA GiftType ==
  ASSUME AccountsTypeOK, Gift
  PROVE  gifts' \in 0..MaxGifts
  BY AccountsAssumptions DEF AccountsAssumptions, AccountsTypeOK, Gift

-----------------------------------------------------------------------------
(* Accounts: the inductive invariant *)

\* The one that is about to lose an administrator holds the lock, and another is left.
AdminHeld ==
  \A t \in Transactions : txn[t].step = "admin" =>
    /\ adminLock = t
    /\ account[txn[t].user].state = "present" /\ ~LastAdmin(txn[t].user)

\* Who decides a request has read it as pending.
DecidesPending ==
  \A t \in Transactions : txn[t].step = "decide" =>
    txn[t].read = "pending" /\ accessRequest[txn[t].id] # Unused

OvertakenUsed == \A q \in overtaken : accessRequest[q] # Unused

Holds(u, wish) ==
  IF wish.type = "security" THEN clearance[u] = wish.value ELSE wish.value \in membership[u]

\* A department may also have come with moves from one that is explained.
Accounted(u, wish) ==
  \/ Explained(u, wish)
  \/ /\ wish.type # "security"
     /\ \E e \in Departments : <<u, e, wish.value>> \in came /\ Explained(u, DepartmentWish(e))

HeldIsAccounted == \A u \in UserIds, wish \in Wish : Holds(u, wish) => Accounted(u, wish)

\* Whoever a move has read held the department when it was read.
TransfersAccounted ==
  \A t \in Transactions : txn[t].step = "transfer" =>
    \A u \in txn[t].users : Accounted(u, DepartmentWish(txn[t].from))

AccountsInv ==
  /\ AccountsTypeOK
  /\ AdminRemains /\ AdminHeld
  /\ DecidesPending /\ OvertakenUsed /\ HeldIsAccounted /\ TransfersAccounted

AdminPart == AdminRemains /\ AdminHeld
GrantPart == DecidesPending /\ OvertakenUsed /\ HeldIsAccounted /\ TransfersAccounted

\* Steps of which accounts and their lock know nothing.
LEMMA AdminQuiet ==
  ASSUME AccountsInv, account' = account, adminLock' = adminLock,
         \A t \in Transactions : txn'[t] = txn[t] \/ txn'[t].step # "admin"
  PROVE  AdminPart'
  BY DEF AccountsInv, AdminPart, AdminRemains, AdminHeld, LastAdmin, ActiveAdmin

LEMMA AdminBegins ==
  ASSUME AccountsInv, NEW t \in Transactions, NEW o \in Operation, NEW u \in UserIds,
         BeginAdmin(t, o, u)
  PROVE  AdminPart'
  <1> DEFINE work == [step |-> "admin", operation |-> o, user |-> u]
  <1>1. work \in AdminTxn /\ work.user = u
    BY DEF AdminTxn
  <1> HIDE DEF work
  <1>2. txn' = [txn EXCEPT ![t] = work] /\ AccountsTypeOK
    BY DEF BeginAdmin, Begin, AccountsInv, work
  <1>3. txn'[t] = work /\ \A s \in Transactions \ {t} : txn'[s] = txn[s]
    BY <1>1, <1>2, TxnTypes, TxnKinds
  <1>4. \A s \in Transactions : txn[s].step # "admin"
    BY AccountsAssumptions DEF BeginAdmin, AccountsInv, AdminHeld, AccountsAssumptions
  <1>5. account' = account /\ adminLock' = t /\ account[u].state = "present" /\ ~LastAdmin(u)
    BY DEF BeginAdmin
  <1> QED
    BY <1>1, <1>3, <1>4, <1>5
       DEF AccountsInv, AdminPart, AdminRemains, AdminHeld, LastAdmin, ActiveAdmin

\* What remains when one account has lost its rights.
LEMMA AdminCommits ==
  ASSUME AccountsInv, NEW t \in Transactions, CommitAdmin(t)
  PROVE  AdminPart'
  <1>1. AccountsTypeOK /\ AdminRemains /\ AdminHeld
    BY DEF AccountsInv
  <1>2. PICK u : u = txn[t].user
    OBVIOUS
  <1>3. u \in UserIds /\ txn[t].operation \in Operation
    BY <1>1, <1>2, TxnParts DEF CommitAdmin
  <1>4. ~LastAdmin(u)
    BY <1>1, <1>2 DEF CommitAdmin, AdminHeld
  <1>5. PICK x \in Account : account' = [account EXCEPT ![u] = x]
    <2>1. /\ [account[u] EXCEPT !.active = FALSE] \in Account
          /\ [account[u] EXCEPT !.admin = FALSE] \in Account
          /\ [state |-> "deleted", active |-> FALSE, admin |-> FALSE] \in Account
      <3>1. account[u] \in Account
        BY <1>1, <1>3 DEF AccountsTypeOK
      <3>2. [state |-> "deleted", active |-> FALSE, admin |-> FALSE] \in Account
        BY DEF Account
      <3> QED
        BY <3>1, <3>2, AccountParts
    <2>2. \/ account' = [account EXCEPT ![u].active = FALSE]
          \/ account' = [account EXCEPT ![u].admin = FALSE]
          \/ account' = [account EXCEPT ![u] = [state |-> "deleted", active |-> FALSE,
                                                admin |-> FALSE]]
      BY <1>2, <1>3 DEF CommitAdmin, Operation
    <2> QED
      BY <2>1, <2>2
  <1>6. PICK v \in UserIds \ {u} : ActiveAdmin(v)
    BY <1>1, <1>4 DEF LastAdmin, AdminRemains, ActiveAdmin
  <1>7. AdminRemains'
    BY <1>1, <1>3, <1>5, <1>6, AccountWrite DEF AdminRemains
  <1>8. AdminHeld'
    <2>1. /\ txn'[t] = NoTxn /\ \A s \in Transactions \ {t} : txn'[s] = txn[s]
      BY <1>1, TxnTypes, TxnKinds DEF CommitAdmin, End
    <2>2. \A s \in Transactions \ {t} : txn[s].step # "admin"
      BY <1>1 DEF CommitAdmin, AdminHeld
    <2> QED
      BY <2>1, <2>2 DEF AdminHeld, NoTxn
  <1> QED
    BY <1>7, <1>8 DEF AdminPart

LEMMA AdminRollsBack ==
  ASSUME AccountsInv, NEW t \in Transactions, RollBack(t)
  PROVE  AdminPart'
  <1>1. AccountsTypeOK /\ AdminRemains /\ AdminHeld
    BY DEF AccountsInv
  <1>2. txn'[t] = NoTxn /\ \A s \in Transactions \ {t} : txn'[s] = txn[s]
    BY <1>1, TxnTypes, TxnKinds DEF RollBack, End
  <1>3. account' = account
    BY DEF RollBack
  <1>4. \A s \in Transactions \ {t} : txn[s].step = "admin" => adminLock' = s
    BY <1>1 DEF RollBack, AdminHeld
  <1> QED
    BY <1>1, <1>2, <1>3, <1>4
       DEF AdminPart, AdminRemains, AdminHeld, LastAdmin, ActiveAdmin, NoTxn

\* Steps that only add rights to an account.
LEMMA AdminGains ==
  ASSUME AccountsInv, NEW u \in UserIds,
         \/ Enable(u) \/ MakeAdmin(u)
         \/ \E admin \in BOOLEAN, ds \in SUBSET Departments : CreateUser(u, admin, ds)
  PROVE  AdminPart'
  <1>1. AccountsTypeOK /\ AdminRemains /\ AdminHeld
    BY DEF AccountsInv
  <1>2. account[u] \in Account
    BY <1>1 DEF AccountsTypeOK
  <1>3. PICK x \in Account : /\ account' = [account EXCEPT ![u] = x]
                             /\ ActiveAdmin(u) => x.state = "present" /\ x.active /\ x.admin
    <2>1. CASE Enable(u)
      <3>1. PICK y : y = [account[u] EXCEPT !.active = TRUE]
        OBVIOUS
      <3>2. y \in Account /\ y = [state |-> account[u].state, active |-> TRUE,
                                  admin |-> account[u].admin]
        BY <1>2, <3>1, AccountParts
      <3> QED
        BY <2>1, <3>1, <3>2 DEF Enable, ActiveAdmin
    <2>2. CASE MakeAdmin(u)
      <3>1. PICK y : y = [account[u] EXCEPT !.admin = TRUE]
        OBVIOUS
      <3>2. y \in Account /\ y = [state |-> account[u].state, active |-> account[u].active,
                                  admin |-> TRUE]
        BY <1>2, <3>1, AccountParts
      <3> QED
        BY <2>2, <3>1, <3>2 DEF MakeAdmin, ActiveAdmin
    <2>3. CASE \E admin \in BOOLEAN, ds \in SUBSET Departments : CreateUser(u, admin, ds)
      <3>1. PICK admin \in BOOLEAN, ds \in SUBSET Departments : CreateUser(u, admin, ds)
        BY <2>3
      <3>2. [state |-> "present", active |-> TRUE, admin |-> admin] \in Account
        BY DEF Account
      <3>3. ~ActiveAdmin(u)
        BY <3>1 DEF CreateUser, ActiveAdmin
      <3> QED
        BY <3>1, <3>2, <3>3 DEF CreateUser
    <2> QED
      BY <2>1, <2>2, <2>3
  <1>4. \A v \in UserIds : ActiveAdmin(v) => ActiveAdmin(v)'
    BY <1>1, <1>3, AccountWrite DEF ActiveAdmin
  <1>5. AdminRemains'
    BY <1>1, <1>4 DEF AdminRemains
  <1>6. txn' = txn /\ adminLock' = adminLock
    BY DEF Enable, MakeAdmin, CreateUser
  <1>7. ASSUME NEW t \in Transactions, txn[t].step = "admin"
        PROVE  account'[txn[t].user] = account[txn[t].user]
    <2>1. adminLock = t /\ account[txn[t].user].state = "present" /\ txn[t].user \in UserIds
      BY <1>1, <1>7, TxnParts DEF AdminHeld
    <2>2. \E admin \in BOOLEAN, ds \in SUBSET Departments : CreateUser(u, admin, ds)
      BY <2>1, AccountsAssumptions DEF Enable, MakeAdmin, AccountsAssumptions
    <2>3. txn[t].user # u
      BY <2>1, <2>2 DEF CreateUser
    <2> QED
      BY <1>1, <1>3, <2>1, <2>3, AccountWrite
  <1>8. AdminHeld'
    <2> SUFFICES ASSUME NEW t \in Transactions, txn[t].step = "admin"
                 PROVE  /\ adminLock = t /\ account'[txn[t].user].state = "present"
                        /\ ~LastAdmin(txn[t].user)'
      BY <1>6 DEF AdminHeld, LastAdmin, ActiveAdmin
    <2>1. PICK v : v = txn[t].user
      OBVIOUS
    <2>2. adminLock = t /\ account[v].state = "present" /\ ~LastAdmin(v)
      BY <1>1, <2>1 DEF AdminHeld
    <2>3. account'[v] = account[v]
      BY <1>7, <2>1
    <2>4. ~LastAdmin(v)'
      BY <1>4, <2>2, <2>3 DEF LastAdmin
    <2>5. LastAdmin(txn[t].user)' => LastAdmin(v)'
      BY <1>6, <2>1 DEF LastAdmin, ActiveAdmin
    <2> QED
      BY <2>1, <2>2, <2>3, <2>4, <2>5
  <1> QED
    BY <1>5, <1>8 DEF AdminPart

\* What has been explained once stays so.
LEMMA AccountedKept ==
  ASSUME given \subseteq given', came \subseteq came', NEW u \in UserIds, NEW wish \in Wish,
         \A w \in Wish : AskedFor(u, w) => AskedFor(u, w)', Accounted(u, wish)
  PROVE  Accounted(u, wish)'
  <1>1. \A w \in Wish : Explained(u, w) => Explained(u, w)'
    BY DEF Explained
  <1>2. CASE Explained(u, wish)
    BY <1>1, <1>2 DEF Accounted
  <1>3. CASE ~Explained(u, wish)
    <2>1. PICK e \in Departments : <<u, e, wish.value>> \in came /\ Explained(u, DepartmentWish(e))
      BY <1>3 DEF Accounted
    <2>2. DepartmentWish(e) \in Wish
      BY WishForms DEF DepartmentWish
    <2>3. Explained(u, DepartmentWish(e))'
      BY <1>1, <2>1, <2>2 DEF DepartmentWish
    <2> QED
      BY <1>3, <2>1, <2>3 DEF Accounted
  <1> QED
    BY <1>2, <1>3

\* A step after which nobody holds anything new that is not accounted for.
LEMMA GrantStep ==
  ASSUME AccountsInv, given \subseteq given', came \subseteq came',
         \A u \in UserIds, wish \in Wish : AskedFor(u, wish) => AskedFor(u, wish)',
         \A u \in UserIds, wish \in Wish :
           Holds(u, wish)' => Holds(u, wish) \/ Accounted(u, wish)',
         \A t \in Transactions : txn'[t] = txn[t] \/ txn'[t].step # "transfer"
  PROVE  HeldIsAccounted' /\ TransfersAccounted'
  <1>1. \A u \in UserIds, wish \in Wish : Accounted(u, wish) => Accounted(u, wish)'
    BY AccountedKept
  <1>2. HeldIsAccounted'
    BY <1>1 DEF AccountsInv, HeldIsAccounted
  <1>3. TransfersAccounted'
    <2> SUFFICES ASSUME NEW t \in Transactions, txn'[t].step = "transfer", NEW u \in txn'[t].users
                 PROVE  Accounted(u, DepartmentWish(txn[t].from))'
      BY DEF TransfersAccounted
    <2>1. txn'[t] = txn[t] /\ txn[t].step = "transfer"
      OBVIOUS
    <2>2. PICK d : d = txn[t].from
      OBVIOUS
    <2>3. d \in Departments /\ u \in UserIds
      BY <2>1, <2>2, TxnParts DEF AccountsInv
    <2>4. Accounted(u, DepartmentWish(d))
      BY <2>1, <2>2 DEF AccountsInv, TransfersAccounted
    <2>5. DepartmentWish(d) \in Wish
      BY <2>3, WishForms DEF DepartmentWish
    <2>6. Accounted(u, DepartmentWish(d))'
      BY <1>1, <2>3, <2>4, <2>5 DEF DepartmentWish
    <2> QED
      BY <2>1, <2>2, <2>6 DEF Accounted, Explained, AskedFor, DepartmentWish
  <1> QED
    BY <1>2, <1>3

\* Steps of which requests, rights and the transactions that change them know nothing.
LEMMA GrantQuiet ==
  ASSUME AccountsInv, UNCHANGED <<clearance, membership, accessRequest, given, overtaken, came>>,
         \A t \in Transactions : txn'[t] = txn[t] \/ txn'[t].step \notin {"decide", "transfer"}
  PROVE  GrantPart'
  <1>1. DecidesPending'
    BY DEF AccountsInv, DecidesPending
  <1>2. OvertakenUsed'
    BY DEF AccountsInv, OvertakenUsed
  <1>3. \A u \in UserIds, wish \in Wish : AskedFor(u, wish) => AskedFor(u, wish)'
    BY DEF AskedFor
  <1>4. \A u \in UserIds, wish \in Wish : Holds(u, wish)' => Holds(u, wish)
    BY DEF Holds
  <1> QED
    BY <1>1, <1>2, <1>3, <1>4, GrantStep DEF GrantPart

\* An administrator changes what one user holds.
LEMMA GrantGiven ==
  ASSUME AccountsInv, UNCHANGED <<accessRequest, overtaken, txn, came>>, given \subseteq given',
         \A u \in UserIds, wish \in Wish :
           Holds(u, wish)' => Holds(u, wish) \/ <<u, wish>> \in given'
  PROVE  GrantPart'
  <1>1. DecidesPending' /\ OvertakenUsed'
    BY DEF AccountsInv, DecidesPending, OvertakenUsed
  <1>2. \A u \in UserIds, wish \in Wish : AskedFor(u, wish) => AskedFor(u, wish)'
    BY DEF AskedFor
  <1>3. \A u \in UserIds, wish \in Wish : <<u, wish>> \in given' => Accounted(u, wish)'
    BY DEF Accounted, Explained
  <1> QED
    BY <1>1, <1>2, <1>3, GrantStep DEF GrantPart

LEMMA GrantByClearance ==
  ASSUME AccountsInv, NEW v \in UserIds, NEW level \in Levels, SetClearance(v, level)
  PROVE  GrantPart'
  <1>1. clearance' = [clearance EXCEPT ![v] = level] /\ clearance \in [UserIds -> Levels \cup {NoLevel}]
    BY DEF SetClearance, AccountsInv, AccountsTypeOK
  <1>2. ASSUME NEW u \in UserIds, NEW wish \in Wish, Holds(u, wish)'
        PROVE  Holds(u, wish) \/ <<u, wish>> \in given'
    <2>1. CASE wish.type = "security" /\ u = v
      <3>1. wish.value = level
        BY <1>1, <1>2, <2>1 DEF Holds
      <3>2. wish = [type |-> "security", value |-> level]
        BY <2>1, <3>1, WishParts
      <3> QED
        BY <2>1, <3>2 DEF SetClearance
    <2>2. CASE wish.type # "security" \/ u # v
      BY <1>1, <1>2, <2>2 DEF SetClearance, Holds
    <2> QED
      BY <2>1, <2>2
  <1> QED
    BY <1>2, GrantGiven DEF SetClearance

LEMMA GrantByDepartments ==
  ASSUME AccountsInv, NEW v \in UserIds,
         \/ \E ds \in SUBSET Departments : SetDepartments(v, ds)
         \/ \E admin \in BOOLEAN, ds \in SUBSET Departments : CreateUser(v, admin, ds)
         \/ \E d \in Departments : RevokeDepartment(v, d)
  PROVE  GrantPart'
  <1>1. membership \in [UserIds -> SUBSET Departments]
    BY DEF AccountsInv, AccountsTypeOK
  <1>2. ASSUME NEW u \in UserIds, NEW wish \in Wish, Holds(u, wish)'
        PROVE  Holds(u, wish) \/ <<u, wish>> \in given'
    <2>1. CASE \/ \E ds \in SUBSET Departments : SetDepartments(v, ds)
               \/ \E admin \in BOOLEAN, ds \in SUBSET Departments : CreateUser(v, admin, ds)
      <3>1. PICK ds \in SUBSET Departments :
              /\ \/ membership' = [membership EXCEPT ![v] = ds]
                 \/ membership' = [membership EXCEPT ![v] = @ \cup ds]
              /\ given' = given \cup {<<v, DepartmentWish(d)>> : d \in ds}
              /\ clearance' = clearance
        BY <2>1 DEF SetDepartments, CreateUser
      <3>2. CASE wish.type # "security" /\ u = v /\ wish.value \in ds
        <4>1. wish = DepartmentWish(wish.value)
          BY <3>2, WishParts DEF DepartmentWish
        <4> QED
          BY <3>1, <3>2, <4>1
      <3>3. CASE wish.type = "security" \/ u # v \/ wish.value \notin ds
        BY <1>1, <1>2, <3>1, <3>3 DEF Holds
      <3> QED
        BY <3>2, <3>3
    <2>2. CASE \E d \in Departments : RevokeDepartment(v, d)
      BY <1>1, <1>2, <2>2 DEF RevokeDepartment, Holds
    <2> QED
      BY <2>1, <2>2
  <1>3. UNCHANGED <<accessRequest, overtaken, txn, came>> /\ given \subseteq given'
    BY DEF SetDepartments, CreateUser, RevokeDepartment
  <1> QED
    BY <1>2, <1>3, GrantGiven

\* A request becomes pending.
LEMMA GrantByCreate ==
  ASSUME AccountsInv, NEW t \in Transactions, NEW q \in RequestIds, CommitCreate(t, q)
  PROVE  GrantPart'
  <1>1. AccountsTypeOK /\ DecidesPending /\ OvertakenUsed
    BY DEF AccountsInv
  <1> DEFINE r == [status |-> "pending", user |-> txn[t].user, wish |-> txn[t].wish]
  <1>2. accessRequest' = [accessRequest EXCEPT ![q] = r] /\ accessRequest[q] = Unused
    BY DEF CommitCreate
  <1>3. r # Unused
    BY DEF Unused
  <1> HIDE DEF r
  <1>4. accessRequest'[q] = r /\ \A p \in RequestIds \ {q} : accessRequest'[p] = accessRequest[p]
    BY <1>1, <1>2 DEF AccountsTypeOK
  <1>5. \A p \in RequestIds : accessRequest[p] # Unused => accessRequest'[p] = accessRequest[p]
    BY <1>2, <1>4
  <1>6. txn'[t] = NoTxn /\ \A s \in Transactions \ {t} : txn'[s] = txn[s]
    BY <1>1, TxnTypes, TxnKinds DEF CommitCreate, End
  <1>7. DecidesPending'
    <2>1. \A s \in Transactions : txn[s].step = "decide" => txn[s].id \in RequestIds
      BY <1>1, TxnParts
    <2> QED
      BY <1>1, <1>5, <1>6, <2>1 DEF DecidesPending, NoTxn
  <1>8. overtaken' = overtaken /\ overtaken \subseteq RequestIds
    BY <1>1 DEF CommitCreate, AccountsTypeOK
  <1>9. OvertakenUsed'
    BY <1>1, <1>5, <1>8 DEF OvertakenUsed
  <1>10. ASSUME NEW u \in UserIds, NEW wish \in Wish, AskedFor(u, wish)
         PROVE  AskedFor(u, wish)'
    <2>1. PICK p \in RequestIds : /\ accessRequest[p].status = "approved" \/ p \in overtaken
                                  /\ accessRequest[p].user = u /\ accessRequest[p].wish = wish
      BY <1>10 DEF AskedFor
    <2>2. accessRequest[p] # Unused
      BY <1>1, <2>1 DEF OvertakenUsed, Unused
    <2> QED
      BY <1>5, <1>8, <2>1, <2>2 DEF AskedFor
  <1>11. \A u \in UserIds, wish \in Wish : Holds(u, wish)' => Holds(u, wish)
    BY DEF CommitCreate, grants, Holds
  <1>12. HeldIsAccounted' /\ TransfersAccounted'
    BY <1>6, <1>10, <1>11, GrantStep DEF CommitCreate, grants, NoTxn
  <1> QED
    BY <1>7, <1>9, <1>12 DEF GrantPart

LEMMA GrantByBeginDecide ==
  ASSUME AccountsInv, NEW t \in Transactions, NEW q \in RequestIds,
         NEW d \in {"approved", "rejected"}, BeginDecide(t, q, d)
  PROVE  GrantPart'
  <1>1. AccountsTypeOK /\ DecidesPending /\ OvertakenUsed
    BY DEF AccountsInv
  <1>2. accessRequest[q].status = "pending" /\ accessRequest[q] # Unused
    BY DEF BeginDecide, Unused
  <1> DEFINE work == [step |-> "decide", id |-> q, decision |-> d, read |-> "pending"]
  <1>3. work \in DecideTxn /\ work.step = "decide" /\ work.id = q /\ work.read = "pending"
    BY DEF DecideTxn, Status
  <1>4. txn' = [txn EXCEPT ![t] = work]
    BY <1>2 DEF BeginDecide, Begin
  <1> HIDE DEF work
  <1>5. txn'[t] = work /\ \A s \in Transactions \ {t} : txn'[s] = txn[s]
    BY <1>1, <1>3, <1>4, TxnTypes, TxnKinds
  <1>6. UNCHANGED <<clearance, membership, accessRequest, given, overtaken, came>>
    BY DEF BeginDecide, grants
  <1>7. DecidesPending'
    BY <1>1, <1>2, <1>3, <1>5, <1>6 DEF DecidesPending
  <1>8. OvertakenUsed'
    BY <1>1, <1>6 DEF OvertakenUsed
  <1>9. \A u \in UserIds, wish \in Wish :
          (AskedFor(u, wish) => AskedFor(u, wish)') /\ (Holds(u, wish)' => Holds(u, wish))
    BY <1>6 DEF AskedFor, Holds
  <1>10. HeldIsAccounted' /\ TransfersAccounted'
    BY <1>3, <1>5, <1>6, <1>9, GrantStep
  <1> QED
    BY <1>7, <1>8, <1>10 DEF GrantPart

\* The decision is written over whatever the status has become.
LEMMA GrantByDecision ==
  ASSUME AccountsInv, NEW t \in Transactions, CommitDecide(t)
  PROVE  GrantPart'
  <1>1. AccountsTypeOK /\ DecidesPending /\ OvertakenUsed
    BY DEF AccountsInv
  <1>2. PICK q : q = txn[t].id
    OBVIOUS
  <1>3. PICK d : d = txn[t].decision
    OBVIOUS
  <1>4. /\ q \in RequestIds /\ d \in {"approved", "rejected"} /\ txn[t].read = "pending"
        /\ accessRequest[q] # Unused
    BY <1>1, <1>2, <1>3, TxnParts DEF CommitDecide, DecidesPending
  <1>5. accessRequest[q] \in AccessRequest
    BY <1>1, <1>4 DEF AccountsTypeOK
  <1>6. PICK r : r = [accessRequest[q] EXCEPT !.status = d]
    OBVIOUS
  <1>7. /\ r # Unused /\ r.status = d
        /\ r.user = accessRequest[q].user /\ r.wish = accessRequest[q].wish
    <2>1. d \in Status
      BY <1>4 DEF Status
    <2>2. PICK x \in AccessRequest : x = accessRequest[q]
      BY <1>5
    <2>3. r = [x EXCEPT !.status = d]
      BY <1>6, <2>2
    <2>4. r \in AccessRequest /\ r.status = d /\ r.user = x.user /\ r.wish = x.wish
      BY <2>1, <2>3, RequestParts
    <2> QED
      BY <2>2, <2>4, RequestParts
  <1>8. accessRequest'[q] = r /\ \A p \in RequestIds \ {q} : accessRequest'[p] = accessRequest[p]
    BY <1>1, <1>2, <1>3, <1>4, <1>6 DEF CommitDecide, AccountsTypeOK
  <1>9. txn'[t] = NoTxn /\ \A s \in Transactions \ {t} : txn'[s] = txn[s]
    BY <1>1, TxnTypes, TxnKinds DEF CommitDecide, End
  <1>10. /\ overtaken \subseteq overtaken' /\ overtaken' \subseteq overtaken \cup {q}
         /\ accessRequest[q].status = "approved" /\ d = "rejected" => q \in overtaken'
         /\ given' = given /\ came' = came
    BY <1>2, <1>3, <1>4 DEF CommitDecide
  <1>11. DecidesPending'
    <2>1. \A s \in Transactions : txn[s].step = "decide" => txn[s].id \in RequestIds
      BY <1>1, TxnParts
    <2> QED
      BY <1>1, <1>4, <1>7, <1>8, <1>9, <2>1 DEF DecidesPending, NoTxn
  <1>12. OvertakenUsed'
    BY <1>1, <1>4, <1>7, <1>8, <1>10 DEF OvertakenUsed, AccountsTypeOK
  <1>13. ASSUME NEW u \in UserIds, NEW wish \in Wish, AskedFor(u, wish)
         PROVE  AskedFor(u, wish)'
    <2>1. PICK p \in RequestIds : /\ accessRequest[p].status = "approved" \/ p \in overtaken
                                  /\ accessRequest[p].user = u /\ accessRequest[p].wish = wish
      BY <1>13 DEF AskedFor
    <2>2. accessRequest'[p].user = u /\ accessRequest'[p].wish = wish
      BY <1>7, <1>8, <2>1
    <2>3. accessRequest'[p].status = "approved" \/ p \in overtaken'
      BY <1>4, <1>7, <1>8, <1>10, <2>1
    <2> QED
      BY <2>1, <2>2, <2>3 DEF AskedFor
  <1>14. ASSUME NEW u \in UserIds, NEW wish \in Wish, Holds(u, wish)'
         PROVE  Holds(u, wish) \/ Accounted(u, wish)'
    <2>2. CASE ~Holds(u, wish)
      <3>1. d = "approved" /\ Apply(accessRequest[q].user, accessRequest[q].wish)
        BY <1>2, <1>3, <1>14, <2>2 DEF CommitDecide, Holds
      <3>2. accessRequest[q].user \in UserIds /\ accessRequest[q].wish \in Wish
        BY <1>5, RequestParts
      <3>3. u = accessRequest[q].user /\ wish.type = accessRequest[q].wish.type
              /\ wish.value = accessRequest[q].wish.value
        <4>1. PICK w \in Wish : w = accessRequest[q].wish
          BY <3>2
        <4>2. PICK v \in UserIds : v = accessRequest[q].user
          BY <3>2
        <4>3. Apply(v, w)
          BY <3>1, <4>1, <4>2
        <4>4. CASE w.type = "security"
          BY <1>1, <1>14, <2>2, <4>1, <4>2, <4>3, <4>4 DEF Apply, Holds, AccountsTypeOK
        <4>5. CASE w.type # "security"
          <5>1. /\ clearance' = clearance
                /\ membership' = [membership EXCEPT ![v] = membership[v] \cup {w.value}]
            BY <4>3, <4>5 DEF Apply
          <5>2. wish.type # "security" /\ u = v /\ wish.value = w.value
            BY <1>1, <1>14, <2>2, <5>1 DEF Holds, AccountsTypeOK
          <5>3. wish.type = w.type
            BY <4>5, <5>2, WishParts
          <5> QED
            BY <4>1, <4>2, <5>2, <5>3
        <4> QED
          BY <4>4, <4>5
      <3>4. wish = accessRequest[q].wish
        BY <3>2, <3>3, WishParts
      <3>5. AskedFor(u, wish)'
        BY <1>4, <1>7, <1>8, <3>1, <3>3, <3>4 DEF AskedFor
      <3> QED
        BY <3>5 DEF Accounted, Explained
    <2> QED
      BY <2>2
  <1>15. HeldIsAccounted' /\ TransfersAccounted'
    BY <1>9, <1>10, <1>13, <1>14, GrantStep DEF NoTxn
  <1> QED
    BY <1>11, <1>12, <1>15 DEF GrantPart

\* An account is deleted: its pending requests are rejected, its rights are gone.
LEMMA GrantByAdmin ==
  ASSUME AccountsInv, NEW t \in Transactions, CommitAdmin(t)
  PROVE  GrantPart'
  <1>1. AccountsTypeOK /\ DecidesPending /\ OvertakenUsed
    BY DEF AccountsInv
  <1>2. txn'[t] = NoTxn /\ \A s \in Transactions \ {t} : txn'[s] = txn[s]
    BY <1>1, TxnTypes, TxnKinds DEF CommitAdmin, End
  <1>3. CASE txn[t].operation # "delete"
    <2>1. UNCHANGED <<clearance, membership, accessRequest, given, overtaken, came>>
      BY <1>3 DEF CommitAdmin
    <2>2. \A s \in Transactions : txn'[s] = txn[s] \/ txn'[s].step \notin {"decide", "transfer"}
      BY <1>2 DEF NoTxn
    <2> QED
      BY <2>1, <2>2, GrantQuiet
  <1>4. CASE txn[t].operation = "delete"
    <2>1. PICK v \in UserIds : v = txn[t].user
      BY <1>1, TxnParts DEF CommitAdmin
    <2>2. /\ clearance' = [clearance EXCEPT ![v] = NoLevel]
          /\ membership' = [membership EXCEPT ![v] = {}]
          /\ given' = given /\ overtaken' = overtaken /\ came' = came
      BY <1>4, <2>1 DEF CommitAdmin
    <2>3. \A p \in RequestIds :
            \/ accessRequest'[p] = accessRequest[p]
            \/ /\ accessRequest[p].status = "pending"
               /\ accessRequest'[p] = [accessRequest[p] EXCEPT !.status = "rejected"]
      BY <1>4 DEF CommitAdmin
    <2>4. ASSUME NEW p \in RequestIds, accessRequest[p] # Unused
          PROVE  /\ accessRequest'[p] # Unused
                 /\ accessRequest[p].status = "approved" => accessRequest'[p].status = "approved"
                 /\ accessRequest'[p].user = accessRequest[p].user
                 /\ accessRequest'[p].wish = accessRequest[p].wish
      <3>1. PICK r \in AccessRequest : r = accessRequest[p]
        BY <1>1, <2>4 DEF AccountsTypeOK
      <3>2. PICK s : s = [r EXCEPT !.status = "rejected"]
        OBVIOUS
      <3>3. s \in AccessRequest /\ s # Unused /\ s.user = r.user /\ s.wish = r.wish
        <4>1. "rejected" \in Status
          BY DEF Status
        <4>2. /\ [r EXCEPT !.status = "rejected"] \in AccessRequest
              /\ [r EXCEPT !.status = "rejected"].user = r.user
              /\ [r EXCEPT !.status = "rejected"].wish = r.wish
          BY <4>1, RequestParts
        <4>3. \A q \in AccessRequest : q # Unused
          BY RequestParts
        <4> QED
          BY <3>2, <4>2, <4>3
      <3>4. accessRequest'[p] = r \/ (r.status = "pending" /\ accessRequest'[p] = s)
        BY <2>3, <3>1, <3>2
      <3> QED
        BY <2>4, <3>1, <3>3, <3>4
    <2>5. DecidesPending'
      <3>1. \A s \in Transactions : txn[s].step = "decide" => txn[s].id \in RequestIds
        BY <1>1, TxnParts
      <3> QED
        BY <1>1, <1>2, <2>4, <3>1 DEF DecidesPending, NoTxn
    <2>6. OvertakenUsed'
      BY <1>1, <2>2, <2>4 DEF OvertakenUsed, AccountsTypeOK
    <2>7. ASSUME NEW u \in UserIds, NEW wish \in Wish, Holds(u, wish)'
          PROVE  Holds(u, wish)
      <3>1. wish.type = "security" => wish.value # NoLevel
        BY WishParts, AccountsAssumptions DEF AccountsAssumptions
      <3> QED
        BY <1>1, <2>2, <2>7, <3>1 DEF Holds, AccountsTypeOK
    <2>8. ASSUME NEW u \in UserIds, NEW wish \in Wish, AskedFor(u, wish)
          PROVE  AskedFor(u, wish)'
      <3>1. PICK p \in RequestIds : /\ accessRequest[p].status = "approved" \/ p \in overtaken
                                    /\ accessRequest[p].user = u /\ accessRequest[p].wish = wish
        BY <2>8 DEF AskedFor
      <3>2. accessRequest[p] # Unused
        BY <1>1, <3>1 DEF OvertakenUsed, Unused
      <3> QED
        BY <2>2, <2>4, <3>1, <3>2 DEF AskedFor
    <2>9. HeldIsAccounted' /\ TransfersAccounted'
      BY <1>2, <2>2, <2>7, <2>8, GrantStep DEF NoTxn
    <2> QED
      BY <2>5, <2>6, <2>9 DEF GrantPart
  <1> QED
    BY <1>3, <1>4

\* A move reads its users: each of them holds the department.
LEMMA GrantByBeginTransfer ==
  ASSUME AccountsInv, NEW t \in Transactions, NEW from \in Departments, NEW to \in Departments,
         BeginTransfer(t, from, to)
  PROVE  GrantPart' /\ AdminPart' /\ AccountsTypeOK'
  <1>1. AccountsTypeOK /\ HeldIsAccounted
    BY DEF AccountsInv
  <1> DEFINE us == {u \in UserIds : from \in membership[u]}
             work == [step |-> "transfer", from |-> from, to |-> to, users |-> us]
  <1>2. work \in TransferTxn /\ work.step = "transfer" /\ work.from = from /\ work.users = us
    BY DEF TransferTxn
  <1>3. txn' = [txn EXCEPT ![t] = work]
    BY DEF BeginTransfer, Begin
  <1>4. \A u \in us : u \in UserIds /\ from \in membership[u]
    OBVIOUS
  <1> HIDE DEF us, work
  <1>5. txn' \in [Transactions -> Txn] /\ txn'[t] = work
          /\ \A s \in Transactions \ {t} : txn'[s] = txn[s]
    BY <1>1, <1>2, <1>3, TxnTypes, TxnKinds
  <1>6. UNCHANGED <<account, clearance, membership, accessRequest, adminLock, given, gifts,
                    overtaken, came>>
    BY DEF BeginTransfer, grants
  <1>7. AccountsTypeOK'
    BY <1>1, <1>5, <1>6 DEF AccountsTypeOK
  <1>8. AdminPart'
    BY <1>2, <1>5, <1>6, AdminQuiet
  <1>9. DecidesPending' /\ OvertakenUsed'
    BY <1>2, <1>5, <1>6 DEF AccountsInv, DecidesPending, OvertakenUsed
  <1>10. ASSUME NEW u \in UserIds, NEW wish \in Wish
         PROVE  /\ Accounted(u, wish) => Accounted(u, wish)'
                /\ Holds(u, wish)' <=> Holds(u, wish)
    BY <1>6 DEF Accounted, Explained, AskedFor, Holds, DepartmentWish
  <1>11. HeldIsAccounted'
    BY <1>1, <1>10 DEF HeldIsAccounted
  <1>12. TransfersAccounted'
    <2> SUFFICES ASSUME NEW s \in Transactions, txn'[s].step = "transfer", NEW u \in txn'[s].users
                 PROVE  Accounted(u, DepartmentWish(txn[s].from))'
      BY DEF TransfersAccounted
    <2>1. PICK d : d = txn'[s].from
      OBVIOUS
    <2>2. u \in UserIds /\ d \in Departments /\ Accounted(u, DepartmentWish(d))
      <3>1. CASE s = t
        <4>1. d = from /\ u \in UserIds /\ from \in membership[u]
          BY <1>2, <1>4, <1>5, <2>1, <3>1
        <4>2. DepartmentWish(from) \in Wish /\ Holds(u, DepartmentWish(from))
          BY <4>1, WishForms DEF Holds, DepartmentWish
        <4> QED
          BY <1>1, <4>1, <4>2 DEF HeldIsAccounted
      <3>2. CASE s # t
        BY <1>1, <1>5, <2>1, <3>2, TxnParts DEF AccountsInv, TransfersAccounted
      <3> QED
        BY <3>1, <3>2
    <2>3. DepartmentWish(d) \in Wish
      BY <2>2, WishForms DEF DepartmentWish
    <2>4. Accounted(u, DepartmentWish(d))'
      BY <1>10, <2>2, <2>3 DEF DepartmentWish
    <2> QED
      BY <2>1, <2>4 DEF Accounted, Explained, AskedFor, DepartmentWish
  <1> QED
    BY <1>7, <1>8, <1>9, <1>11, <1>12 DEF GrantPart

\* It gives the new department to those it has read, and to nobody else.
LEMMA GrantByCommitTransfer ==
  ASSUME AccountsInv, NEW t \in Transactions, CommitTransfer(t)
  PROVE  GrantPart' /\ AdminPart' /\ AccountsTypeOK'
  <1>1. AccountsTypeOK /\ TransfersAccounted /\ txn[t].step = "transfer"
    BY DEF AccountsInv, CommitTransfer
  <1>2. PICK from : from = txn[t].from
    OBVIOUS
  <1>3. PICK to : to = txn[t].to
    OBVIOUS
  <1>4. PICK us : us = txn[t].users
    OBVIOUS
  <1>5. from \in Departments /\ to \in Departments /\ us \in SUBSET UserIds
    BY <1>1, <1>2, <1>3, <1>4, TxnParts
  <1>6. /\ membership' = [u \in UserIds |-> (membership[u] \ {from})
                                             \cup (IF u \in us THEN {to} ELSE {})]
        /\ came' = came \cup {step \in us \X Departments \X {to} :
                                step[2] \in Origins(step[1], from) \ {to}}
    BY <1>2, <1>3, <1>4 DEF CommitTransfer
  <1>7. /\ txn' \in [Transactions -> Txn] /\ txn'[t] = NoTxn
        /\ \A s \in Transactions \ {t} : txn'[s] = txn[s]
    BY <1>1, TxnTypes, TxnKinds DEF CommitTransfer, End
  <1>8. UNCHANGED <<account, clearance, accessRequest, adminLock, given, gifts, overtaken>>
    BY DEF CommitTransfer
  <1>9. AccountsTypeOK'
    <2>1. membership' \in [UserIds -> SUBSET Departments]
      BY <1>1, <1>5, <1>6 DEF AccountsTypeOK
    <2>2. came' \subseteq UserIds \X Departments \X Departments
      BY <1>1, <1>5, <1>6 DEF AccountsTypeOK
    <2> QED
      BY <1>1, <1>7, <1>8, <2>1, <2>2 DEF AccountsTypeOK
  <1>10. AdminPart'
    BY <1>7, <1>8, AdminQuiet DEF NoTxn
  <1>11. DecidesPending' /\ OvertakenUsed'
    BY <1>7, <1>8 DEF AccountsInv, DecidesPending, OvertakenUsed, NoTxn
  <1>12. \A u \in UserIds, wish \in Wish : AskedFor(u, wish) => AskedFor(u, wish)'
    BY <1>8 DEF AskedFor
  <1>13. ASSUME NEW u \in UserIds, NEW wish \in Wish, Holds(u, wish)', ~Holds(u, wish)
         PROVE  Accounted(u, wish)'
    <2>1. wish.type # "security" /\ u \in us /\ wish.value = to
      BY <1>1, <1>6, <1>8, <1>13 DEF Holds, AccountsTypeOK
    <2>2. wish = DepartmentWish(to)
      BY <2>1, WishParts DEF DepartmentWish
    <2>3. Accounted(u, DepartmentWish(from))
      BY <1>1, <1>2, <1>4, <2>1 DEF TransfersAccounted
    <2>4. PICK e \in Departments : e \in Origins(u, from) /\ Explained(u, DepartmentWish(e))
      <3>1. DepartmentWish(from).value = from
        BY DEF DepartmentWish
      <3> QED
        BY <1>5, <2>3, <3>1 DEF Accounted, Origins
    <2>5. Explained(u, DepartmentWish(e))'
      <3>1. DepartmentWish(e) \in Wish
        BY WishForms DEF DepartmentWish
      <3> QED
        BY <1>8, <1>12, <2>4, <3>1 DEF Explained, DepartmentWish
    <2>6. CASE e = to
      BY <2>2, <2>5, <2>6 DEF Accounted, DepartmentWish
    <2>7. CASE e # to
      <3>1. <<u, e, to>> \in came'
        BY <1>6, <2>1, <2>4, <2>7
      <3> QED
        BY <2>1, <2>5, <3>1 DEF Accounted
    <2> QED
      BY <2>6, <2>7
  <1>14. HeldIsAccounted' /\ TransfersAccounted'
    <2>1. given \subseteq given' /\ came \subseteq came'
      BY <1>6, <1>8
    <2> QED
      BY <1>7, <1>12, <1>13, <2>1, GrantStep DEF NoTxn
  <1> QED
    BY <1>9, <1>10, <1>11, <1>14 DEF GrantPart

-----------------------------------------------------------------------------
(* Accounts: the theorems *)

LEMMA AccountsInvInit == AccountsInit => AccountsInv
  <1>1. AccountsInit => AdminRemains /\ AdminHeld /\ DecidesPending /\ OvertakenUsed
                      /\ TransfersAccounted
    BY DEF AccountsInit, AdminRemains, AdminHeld, DecidesPending, OvertakenUsed, TransfersAccounted,
           NoTxn
  <1>2. AccountsInit => HeldIsAccounted
    <2> SUFFICES ASSUME AccountsInit, NEW u \in UserIds, NEW wish \in Wish
                 PROVE  ~Holds(u, wish)
      BY DEF HeldIsAccounted
    <2>1. wish.type = "security" => wish.value # NoLevel
      BY WishParts, AccountsAssumptions DEF AccountsAssumptions
    <2> QED
      BY <2>1 DEF AccountsInit, Holds
  <1> QED
    BY <1>1, <1>2, AccountsTypeInit DEF AccountsInv

LEMMA AccountsInvNext ==
  ASSUME AccountsInv, [AccountsNext]_accountVars
  PROVE  AccountsInv'
  <1>1. AccountsTypeOK
    BY DEF AccountsInv
  <1>2. AccountsTypeOK' /\ AdminPart' /\ GrantPart' => AccountsInv'
    BY DEF AccountsInv, AdminPart, GrantPart
  <1>3. ASSUME NEW t \in Transactions, NEW o \in Operation, NEW u \in UserIds,
               BeginAdmin(t, o, u)
        PROVE  AccountsInv'
    <2>1. [step |-> "admin", operation |-> o, user |-> u] \in AdminTxn
      BY DEF AdminTxn
    <2>2. PICK work \in AdminTxn : work.step = "admin" /\ txn' = [txn EXCEPT ![t] = work]
      BY <1>3, <2>1 DEF BeginAdmin, Begin
    <2>3. /\ txn' \in [Transactions -> Txn]
          /\ txn'[t] = work /\ \A s \in Transactions \ {t} : txn'[s] = txn[s]
      BY <1>1, <2>2, TxnTypes, TxnKinds
    <2>4. UNCHANGED <<account, clearance, membership, given, gifts, accessRequest, overtaken, came>>
            /\ adminLock' = t
      BY <1>3 DEF BeginAdmin, grants
    <2>5. AccountsTypeOK'
      BY <1>1, <2>3, <2>4 DEF AccountsTypeOK
    <2>6. GrantPart'
      BY <2>2, <2>3, <2>4, GrantQuiet
    <2> QED
      BY <1>2, <1>3, <2>5, <2>6, AdminBegins
  <1>4. ASSUME NEW t \in Transactions, CommitAdmin(t)
        PROVE  AccountsInv'
    BY <1>1, <1>2, <1>4, CommitAdminType, AdminCommits, GrantByAdmin
  <1>5. ASSUME NEW u \in UserIds,
               \/ Enable(u) \/ MakeAdmin(u)
               \/ \E admin \in BOOLEAN, ds \in SUBSET Departments : CreateUser(u, admin, ds)
        PROVE  AccountsInv'
    <2>1. account' \in [UserIds -> Account]
      <3>1. account[u] \in Account
        BY <1>1 DEF AccountsTypeOK
      <3>2. /\ [account[u] EXCEPT !.active = TRUE] \in Account
            /\ [account[u] EXCEPT !.admin = TRUE] \in Account
            /\ \A admin \in BOOLEAN :
                 [state |-> "present", active |-> TRUE, admin |-> admin] \in Account
        <4>1. \A admin \in BOOLEAN :
                 [state |-> "present", active |-> TRUE, admin |-> admin] \in Account
          BY DEF Account
        <4> QED
          BY <3>1, <4>1, AccountParts
      <3> QED
        BY <1>1, <1>5, <3>2 DEF Enable, MakeAdmin, CreateUser, AccountsTypeOK
    <2>2. UNCHANGED <<clearance, gifts, accessRequest, txn, adminLock, overtaken, came>>
      BY <1>5 DEF Enable, MakeAdmin, CreateUser, grants
    <2>3. CASE Enable(u) \/ MakeAdmin(u)
      <3>1. membership' = membership /\ given' = given
        BY <2>3 DEF Enable, MakeAdmin, grants
      <3>2. AccountsTypeOK'
        BY <1>1, <2>1, <2>2, <3>1 DEF AccountsTypeOK
      <3> QED
        BY <1>2, <2>2, <2>3, <3>1, <3>2, AdminGains, GrantQuiet
    <2>4. CASE \E admin \in BOOLEAN, ds \in SUBSET Departments : CreateUser(u, admin, ds)
      <3>1. membership' \in [UserIds -> SUBSET Departments]
        BY <1>1, <2>4 DEF CreateUser, AccountsTypeOK
      <3>2. given' \subseteq UserIds \X Wish
        BY <1>1, <2>4, WishForms DEF CreateUser, DepartmentWish, AccountsTypeOK
      <3>3. AccountsTypeOK'
        BY <1>1, <2>1, <2>2, <3>1, <3>2 DEF AccountsTypeOK
      <3> QED
        BY <1>2, <2>4, <3>3, AdminGains, GrantByDepartments
    <2> QED
      BY <1>5, <2>3, <2>4
  <1>6. ASSUME NEW u \in UserIds, NEW level \in Levels, SetClearance(u, level)
        PROVE  AccountsInv'
    <2>1. AccountsTypeOK'
      <3>1. [type |-> "security", value |-> level] \in Wish /\ gifts' \in 0..MaxGifts
        BY <1>1, <1>6, WishForms, GiftType DEF SetClearance
      <3> QED
        BY <1>1, <1>6, <3>1 DEF SetClearance, AccountsTypeOK
    <2>2. AdminPart'
      BY <1>6, AdminQuiet DEF SetClearance
    <2> QED
      BY <1>2, <1>6, <2>1, <2>2, GrantByClearance
  <1>7. ASSUME NEW u \in UserIds,
               \/ \E ds \in SUBSET Departments : SetDepartments(u, ds)
               \/ \E d \in Departments : RevokeDepartment(u, d)
        PROVE  AccountsInv'
    <2>1. gifts' \in 0..MaxGifts
      BY <1>1, <1>7, GiftType DEF SetDepartments, RevokeDepartment, AccountsTypeOK
    <2>2. membership' \in [UserIds -> SUBSET Departments]
      BY <1>1, <1>7 DEF SetDepartments, RevokeDepartment, AccountsTypeOK
    <2>3. given' \subseteq UserIds \X Wish
      BY <1>1, <1>7, WishForms
         DEF SetDepartments, RevokeDepartment, DepartmentWish, AccountsTypeOK
    <2>4. UNCHANGED <<account, clearance, accessRequest, txn, adminLock, overtaken, came>>
      BY <1>7 DEF SetDepartments, RevokeDepartment
    <2>5. AccountsTypeOK'
      BY <1>1, <2>1, <2>2, <2>3, <2>4 DEF AccountsTypeOK
    <2>6. AdminPart'
      BY <2>4, AdminQuiet
    <2> QED
      BY <1>2, <1>7, <2>5, <2>6, GrantByDepartments
  <1>8. ASSUME NEW t \in Transactions, NEW u \in UserIds, NEW wish \in Wish,
               BeginCreate(t, u, wish)
        PROVE  AccountsInv'
    <2>1. [step |-> "create", user |-> u, wish |-> wish] \in CreateTxn
      BY DEF CreateTxn
    <2>2. PICK work \in CreateTxn : work.step = "create" /\ txn' = [txn EXCEPT ![t] = work]
      BY <1>8, <2>1 DEF BeginCreate, Begin
    <2>3. /\ txn' \in [Transactions -> Txn]
          /\ txn'[t] = work /\ \A s \in Transactions \ {t} : txn'[s] = txn[s]
      BY <1>1, <2>2, TxnTypes, TxnKinds
    <2>4. UNCHANGED <<account, clearance, membership, given, gifts, accessRequest, adminLock, overtaken, came>>
      BY <1>8 DEF BeginCreate, grants
    <2>5. AccountsTypeOK'
      BY <1>1, <2>3, <2>4 DEF AccountsTypeOK
    <2>6. AdminPart' /\ GrantPart'
      BY <2>2, <2>3, <2>4, AdminQuiet, GrantQuiet
    <2> QED
      BY <1>2, <2>5, <2>6
  <1>9. ASSUME NEW t \in Transactions, NEW q \in RequestIds, CommitCreate(t, q)
        PROVE  AccountsInv'
    <2>1. /\ txn' \in [Transactions -> Txn]
          /\ txn'[t] = NoTxn /\ \A s \in Transactions \ {t} : txn'[s] = txn[s]
      BY <1>1, <1>9, TxnTypes, TxnKinds DEF CommitCreate, End
    <2>2. accessRequest' \in [RequestIds -> AccessRequest \cup {Unused}]
      <3>1. txn[t].user \in UserIds /\ txn[t].wish \in Wish
        BY <1>1, <1>9, TxnParts DEF CommitCreate
      <3>2. [status |-> "pending", user |-> txn[t].user, wish |-> txn[t].wish] \in AccessRequest
        BY <3>1 DEF AccessRequest, Status
      <3> QED
        BY <1>1, <1>9, <3>2 DEF CommitCreate, AccountsTypeOK
    <2>3. UNCHANGED <<account, clearance, membership, given, gifts, adminLock, overtaken, came>>
      BY <1>9 DEF CommitCreate, grants
    <2>4. AccountsTypeOK'
      BY <1>1, <2>1, <2>2, <2>3 DEF AccountsTypeOK
    <2>5. AdminPart'
      BY <2>1, <2>3, AdminQuiet DEF NoTxn
    <2> QED
      BY <1>2, <1>9, <2>4, <2>5, GrantByCreate
  <1>10. ASSUME NEW t \in Transactions, NEW q \in RequestIds, NEW d \in {"approved", "rejected"},
                BeginDecide(t, q, d)
         PROVE  AccountsInv'
    <2>1. [step |-> "decide", id |-> q, decision |-> d, read |-> accessRequest[q].status] \in DecideTxn
      BY <1>10 DEF BeginDecide, DecideTxn, Status
    <2>2. PICK work \in DecideTxn : work.step = "decide" /\ txn' = [txn EXCEPT ![t] = work]
      BY <1>10, <2>1 DEF BeginDecide, Begin
    <2>3. /\ txn' \in [Transactions -> Txn]
          /\ txn'[t] = work /\ \A s \in Transactions \ {t} : txn'[s] = txn[s]
      BY <1>1, <2>2, TxnTypes, TxnKinds
    <2>4. UNCHANGED <<account, clearance, membership, given, gifts, accessRequest, adminLock, overtaken, came>>
      BY <1>10 DEF BeginDecide, grants
    <2>5. AccountsTypeOK'
      BY <1>1, <2>3, <2>4 DEF AccountsTypeOK
    <2>6. AdminPart'
      BY <2>2, <2>3, <2>4, AdminQuiet
    <2> QED
      BY <1>2, <1>10, <2>5, <2>6, GrantByBeginDecide
  <1>11. ASSUME NEW t \in Transactions, CommitDecide(t)
         PROVE  AccountsInv'
    <2>1. accessRequest[txn[t].id] # Unused
      BY <1>11 DEF CommitDecide, AccountsInv, DecidesPending
    <2>2. AccountsTypeOK'
      BY <1>1, <1>11, <2>1, CommitDecideType
    <2>3. txn'[t] = NoTxn /\ \A s \in Transactions \ {t} : txn'[s] = txn[s]
      BY <1>1, <1>11, TxnTypes, TxnKinds DEF CommitDecide, End
    <2>4. AdminPart'
      BY <1>11, <2>3, AdminQuiet DEF CommitDecide, NoTxn
    <2> QED
      BY <1>2, <1>11, <2>2, <2>4, GrantByDecision
  <1>12. ASSUME NEW t \in Transactions, RollBack(t)
         PROVE  AccountsInv'
    <2>1. /\ txn' \in [Transactions -> Txn]
          /\ txn'[t] = NoTxn /\ \A s \in Transactions \ {t} : txn'[s] = txn[s]
      BY <1>1, <1>12, TxnTypes, TxnKinds DEF RollBack, End
    <2>2. UNCHANGED <<account, clearance, membership, given, gifts, accessRequest, overtaken, came>>
      BY <1>12 DEF RollBack, grants
    <2>3. adminLock' \in Transactions \cup {NoTransaction}
      BY <1>1, <1>12 DEF RollBack, AccountsTypeOK
    <2>4. AccountsTypeOK'
      BY <1>1, <2>1, <2>2, <2>3 DEF AccountsTypeOK
    <2>5. GrantPart'
      BY <2>1, <2>2, GrantQuiet DEF NoTxn
    <2> QED
      BY <1>2, <1>12, <2>4, <2>5, AdminRollsBack
  <1>13. CASE UNCHANGED accountVars
    <2>1. AccountsTypeOK'
      BY <1>1, <1>13 DEF accountVars, AccountsTypeOK
    <2> QED
      BY <1>2, <1>13, <2>1, AdminQuiet, GrantQuiet DEF accountVars
  <1>14. Administer => AccountsInv'
    BY <1>3, <1>4, <1>5, <1>6, <1>7 DEF Administer
  <1>15. AskForAccess => AccountsInv'
    BY <1>8, <1>9, <1>10, <1>11 DEF AskForAccess
  <1>16. MoveMembers => AccountsInv'
    BY <1>2, GrantByBeginTransfer, GrantByCommitTransfer DEF MoveMembers
  <1> QED
    BY <1>12, <1>13, <1>14, <1>15, <1>16 DEF AccountsNext

LEMMA AccountsInvAlways == AccountsSpec => []AccountsInv
  BY AccountsInvInit, AccountsInvNext, PTL DEF AccountsSpec

\* Types of the variables.
THEOREM AccountsTypes == AccountsSpec => []AccountsTypeOK
  <1>1. AccountsInv => AccountsTypeOK
    BY DEF AccountsInv
  <1> QED
    BY <1>1, AccountsInvAlways, PTL

\* Among any number of users and administrators who act at the same time, an active
\* administrator is left.
THEOREM AdminRemainsAlways == AccountsSpec => []AdminRemains
  <1>1. AccountsInv => AdminRemains
    BY DEF AccountsInv
  <1> QED
    BY <1>1, AccountsInvAlways, PTL

\* For any number of users, requests, reviewers and moves: rights were given or approved,
\* or came with moves of departments from one that was.
THEOREM GrantsAreExplainedAlways == AccountsSpec => []GrantsAreExplained
  <1>1. AccountsInv => GrantsAreExplained
    <2> SUFFICES ASSUME AccountsInv, NEW u \in UserIds
                 PROVE  /\ \A level \in Levels : clearance[u] = level =>
                             Explained(u, [type |-> "security", value |-> level])
                        /\ \A d \in membership[u] :
                             \E e \in Origins(u, d) : Explained(u, DepartmentWish(e))
      BY DEF GrantsAreExplained
    <2>1. ASSUME NEW level \in Levels, clearance[u] = level
          PROVE  Explained(u, [type |-> "security", value |-> level])
      <3>1. PICK wish \in Wish : wish = [type |-> "security", value |-> level]
        BY WishForms
      <3>2. wish.type = "security" /\ wish.value = level
        BY <3>1
      <3>3. Holds(u, wish)
        BY <2>1, <3>2 DEF Holds
      <3>4. Accounted(u, wish)
        BY <3>3 DEF AccountsInv, HeldIsAccounted
      <3> QED
        BY <3>1, <3>2, <3>4 DEF Accounted
    <2>2. ASSUME NEW d \in membership[u]
          PROVE  \E e \in Origins(u, d) : Explained(u, DepartmentWish(e))
      <3>1. d \in Departments
        BY DEF AccountsInv, AccountsTypeOK
      <3>2. DepartmentWish(d) \in Wish /\ Holds(u, DepartmentWish(d)) /\ DepartmentWish(d).value = d
        BY <3>1, WishForms DEF Holds, DepartmentWish
      <3>3. Accounted(u, DepartmentWish(d))
        BY <3>2 DEF AccountsInv, HeldIsAccounted
      <3> QED
        BY <3>1, <3>2, <3>3 DEF Accounted, Origins
    <2> QED
      BY <2>1, <2>2
  <1> QED
    BY <1>1, AccountsInvAlways, PTL

-----------------------------------------------------------------------------
(* Answers: types *)

LEMMA QuestionParts ==
  ASSUME NEW x \in Question
  PROVE  /\ x # NoQuestion /\ x.scope \in SUBSET Sources /\ x.basis \in Basis /\ x.chat \in Nat
  <1>1. x.step \in {"lookup", "current", "capture", "retrieve", "generate", "store", "row", "evidence"}
    BY DEF Question
  <1>2. x # NoQuestion
    BY <1>1 DEF NoQuestion
  <1> QED
    BY <1>2 DEF Question

\* A question in its next step, perhaps with a basis or a row of its own.
LEMMA QuestionMoves ==
  ASSUME NEW x \in Question, NEW y,
         NEW step \in {"lookup", "current", "capture", "retrieve", "generate", "store",
                       "row", "evidence"},
         y = [x EXCEPT !.step = step]
  PROVE  y \in Question /\ y.step = step
  BY DEF Question

LEMMA QuestionFinds ==
  ASSUME NEW x \in Question, NEW y, NEW b \in Basis, NEW step \in {"current", "generate"},
         y = [x EXCEPT !.step = step, !.basis = b]
  PROVE  y \in Question /\ y.step = step
  BY DEF Question

LEMMA QuestionSaves ==
  ASSUME NEW x \in Question, NEW y, NEW n \in Nat,
         y = [x EXCEPT !.step = "evidence", !.chat = n]
  PROVE  y \in Question /\ y.chat = n /\ y.basis = x.basis
  BY DEF Question

\* A question in some step is in flight.
LEMMA AskedParts ==
  ASSUME AnswersTypeOK, NEW h \in Handlers, NEW step, Asked(h, step), step # "idle"
  PROVE  handler[h] \in Question
  BY DEF AnswersTypeOK, Asked, NoQuestion

LEMMA HandlerType ==
  ASSUME AnswersTypeOK, NEW h \in Handlers, NEW x \in Question \cup {NoQuestion},
         handler' = [handler EXCEPT ![h] = x]
  PROVE  /\ handler' \in [Handlers -> Question \cup {NoQuestion}] /\ handler'[h] = x
         /\ \A g \in Handlers \ {h} : handler'[g] = handler[g]
  BY DEF AnswersTypeOK

LEMMA ChatParts ==
  ASSUME NEW c \in Chat
  PROVE  c.id \in Nat /\ c.basis \in Basis /\ c.evidence \in Basis
  BY DEF Chat

\* A saved answer that has lost evidence.
LEMMA ChatIncomplete ==
  ASSUME NEW c \in Chat, NEW d, NEW pins \in Basis,
         d = [c EXCEPT !.manifest = "incomplete", !.evidence = pins]
  PROVE  d \in Chat /\ d.id = c.id /\ d.basis = c.basis /\ d.manifest = "incomplete"
  BY DEF Chat

LEMMA SmallerBasis ==
  ASSUME NEW pins \in Basis, NEW s
  PROVE  {pin \in pins : pin[1] # s} \in Basis /\ Cardinality(pins) \in Nat
  <1>1. {pin \in pins : pin[1] # s} \subseteq pins /\ IsFiniteSet(pins)
    BY DEF Basis
  <1>2. IsFiniteSet({pin \in pins : pin[1] # s})
    BY <1>1, FS_Subset
  <1>3. Cardinality(pins) \in Nat
    BY <1>1, FS_CardinalityType
  <1> QED
    BY <1>1, <1>2, <1>3 DEF Basis

\* What is retrieved now is a basis.
LEMMA FoundBasis ==
  ASSUME AnswersTypeOK, NEW found \in SUBSET Sources
  PROVE  {<<s, source[s].revision>> : s \in found} \in Basis
  <1>1. \A s \in found : source[s].revision \in Nat
    BY DEF AnswersTypeOK, Source
  <1>2. {<<s, source[s].revision>> : s \in found} \subseteq Pin
    BY <1>1 DEF Pin
  <1>3. IsFiniteSet(found)
    BY AnswersAssumptions, FS_Subset DEF AnswersAssumptions
  <1> DEFINE f == [s \in found |-> <<s, source[s].revision>>]
  <1>4. f \in Surjection(found, {<<s, source[s].revision>> : s \in found})
    BY DEF Surjection
  <1>5. IsFiniteSet({<<s, source[s].revision>> : s \in found})
    BY <1>3, <1>4, FS_Surjection
  <1> QED
    BY <1>2, <1>5 DEF Basis

LEMMA AnswersTypeInit == AnswersInit => AnswersTypeOK
  BY AnswersAssumptions DEF AnswersAssumptions, AnswersInit, AnswersTypeOK, Source

-----------------------------------------------------------------------------
(* Answers: the inductive invariant *)

\* Evidence that counts as complete is all that the answer rests on.
EvidenceWhole == \A c \in chats : c.manifest = "complete" => c.evidence = c.basis

\* Ids are given out in order, and a handler saves evidence for its own answer.
OwnChat ==
  /\ \A c \in chats : c.id <= lastChat
  /\ \A h \in Handlers : Asked(h, "evidence") =>
       /\ handler[h].chat <= lastChat
       /\ \A c \in chats : c.id = handler[h].chat => c.basis = handler[h].basis

AnswersInv == AnswersTypeOK /\ EvidenceWhole /\ OwnChat

\* A handler goes on without saving anything.
LEMMA AnswerQuiet ==
  ASSUME AnswersInv, NEW h \in Handlers, NEW x \in Question \cup {NoQuestion},
         handler' = [handler EXCEPT ![h] = x], x.step # "evidence",
         UNCHANGED saved
  PROVE  /\ handler' \in [Handlers -> Question \cup {NoQuestion}]
         /\ EvidenceWhole' /\ OwnChat'
  <1>1. AnswersTypeOK /\ EvidenceWhole /\ OwnChat /\ chats' = chats /\ lastChat' = lastChat
    BY DEF AnswersInv, saved
  <1>2. /\ handler' \in [Handlers -> Question \cup {NoQuestion}] /\ handler'[h] = x
        /\ \A g \in Handlers \ {h} : handler'[g] = handler[g]
    BY <1>1, HandlerType
  <1>3. EvidenceWhole'
    BY <1>1 DEF EvidenceWhole
  <1>4. OwnChat'
    BY <1>1, <1>2 DEF OwnChat, Asked
  <1> QED
    BY <1>2, <1>3, <1>4

\* Saved answers are rewritten, keeping their ids and bases.
LEMMA AnswerRewritten ==
  ASSUME AnswersInv, lastChat' = lastChat,
         \A d \in chats' : \E c \in chats : d.id = c.id /\ d.basis = c.basis,
         \A h \in Handlers : handler'[h] = handler[h] \/ handler'[h].step # "evidence"
  PROVE  OwnChat'
  BY DEF AnswersInv, OwnChat, Asked

LEMMA ChatSaved ==
  ASSUME AnswersInv, NEW h \in Handlers, SaveChat(h)
  PROVE  AnswersInv'
  <1>1. AnswersTypeOK /\ EvidenceWhole /\ OwnChat
    BY DEF AnswersInv
  <1> DEFINE id == lastChat + 1
             c == [id |-> id, basis |-> handler[h].basis, scope |-> {},
                   evidence |-> {}, count |-> 0, manifest |-> "missing"]
             x == [handler[h] EXCEPT !.step = "evidence", !.chat = id]
  <1>2. handler[h] \in Question /\ handler[h].basis \in Basis
    BY <1>1, AskedParts, QuestionParts DEF SaveChat
  <1>3. lastChat \in 0..MaxChats /\ MaxChats \in Nat /\ lastChat < MaxChats /\ id \in Nat
    BY <1>1, AnswersAssumptions DEF AnswersAssumptions, AnswersTypeOK, SaveChat
  <1>4. /\ chats' = chats \cup {c} /\ lastChat' = id
        /\ handler' = [handler EXCEPT ![h] = x]
        /\ UNCHANGED <<world, cache>>
    BY DEF SaveChat
  <1>5. {} \in Basis
    BY FS_EmptySet DEF Basis
  <1>6. c \in Chat
    BY <1>2, <1>3, <1>5 DEF Chat
  <1>7. x \in Question /\ x.chat = id /\ x.basis = handler[h].basis
    BY <1>2, <1>3, QuestionSaves, ZenonT(60)
  <1>8. c.id = id /\ c.basis = handler[h].basis /\ c.manifest = "missing"
    OBVIOUS
  <1> HIDE DEF c, x
  <1>9. /\ handler' \in [Handlers -> Question \cup {NoQuestion}] /\ handler'[h] = x
        /\ \A g \in Handlers \ {h} : handler'[g] = handler[g]
    BY <1>1, <1>4, <1>7, HandlerType
  <1>10. AnswersTypeOK'
    BY <1>1, <1>3, <1>4, <1>6, <1>9 DEF AnswersTypeOK, world
  <1>11. EvidenceWhole'
    BY <1>1, <1>4, <1>8 DEF EvidenceWhole
  <1>15. \A d \in chats : d.id \in Nat /\ d.id <= lastChat
    BY <1>1, ChatParts DEF OwnChat, AnswersTypeOK
  <1>16. lastChat \in Nat /\ id = lastChat + 1
    BY <1>3
  <1> HIDE DEF id
  <1>12. \A d \in chats' : d.id <= lastChat'
    BY <1>4, <1>8, <1>15, <1>16
  <1>13. ASSUME NEW g \in Handlers, Asked(g, "evidence")'
         PROVE  /\ handler'[g].chat <= lastChat'
                /\ \A d \in chats' : d.id = handler'[g].chat => d.basis = handler'[g].basis
    <2>1. CASE g = h
      <3>1. \A d \in chats : d.id # id
        BY <1>15, <1>16
      <3> QED
        BY <1>4, <1>7, <1>8, <1>9, <1>16, <2>1, <3>1
    <2>2. CASE g # h
      <3>1. handler'[g] = handler[g] /\ Asked(g, "evidence")
        BY <1>9, <1>13, <2>2 DEF Asked
      <3>2. handler[g].chat \in Nat
        BY <1>1, <3>1, AskedParts, QuestionParts
      <3>3. handler[g].chat <= lastChat
        BY <1>1, <3>1 DEF OwnChat
      <3> QED
        BY <1>1, <1>4, <1>8, <1>16, <3>1, <3>2, <3>3 DEF OwnChat
    <2> QED
      BY <2>1, <2>2
  <1>14. OwnChat'
    BY <1>12, <1>13 DEF OwnChat
  <1> QED
    BY <1>10, <1>11, <1>14 DEF AnswersInv

LEMMA EvidenceSaved ==
  ASSUME AnswersInv, NEW h \in Handlers, SaveEvidence(h)
  PROVE  AnswersInv'
  <1>1. AnswersTypeOK /\ EvidenceWhole /\ OwnChat
    BY DEF AnswersInv
  <1>2. /\ handler' \in [Handlers -> Question \cup {NoQuestion}] /\ handler'[h] = NoQuestion
        /\ \A g \in Handlers \ {h} : handler'[g] = handler[g]
    BY <1>1, HandlerType DEF SaveEvidence, Answered
  <1>3. \A g \in Handlers : handler'[g] = handler[g] \/ handler'[g].step # "evidence"
    BY <1>2 DEF NoQuestion
  <1>4. UNCHANGED <<world, cache>> /\ lastChat' = lastChat
    BY DEF SaveEvidence
  <1>5. PICK x : x = handler[h]
    OBVIOUS
  <1>6. /\ x \in Question /\ x.basis \in Basis /\ x.scope \in SUBSET Sources
        /\ Cardinality(x.basis) \in Nat
    BY <1>1, <1>5, AskedParts, QuestionParts, SmallerBasis DEF SaveEvidence
  <1> DEFINE F(c) == IF c.id = x.chat
                       THEN [c EXCEPT !.scope = x.scope, !.evidence = x.basis,
                                      !.count = Cardinality(x.basis), !.manifest = "complete"]
                       ELSE c
  <1>7. chats' = chats \/ chats' = {F(c) : c \in chats}
    BY <1>5 DEF SaveEvidence
  <1>8. ASSUME NEW c \in chats
        PROVE  /\ F(c) \in Chat /\ F(c).id = c.id /\ F(c).basis = c.basis
               /\ F(c).manifest = "complete" => F(c).evidence = F(c).basis
    <2>1. c \in Chat
      BY <1>1 DEF AnswersTypeOK
    <2>2. CASE c.id = x.chat
      <3>1. PICK d : d = [c EXCEPT !.scope = x.scope, !.evidence = x.basis,
                                   !.count = Cardinality(x.basis), !.manifest = "complete"]
        OBVIOUS
      <3>2. d \in Chat /\ d.id = c.id /\ d.basis = c.basis /\ d.evidence = x.basis
        <4>1. PICK n \in Nat : n = Cardinality(x.basis)
          BY <1>6
        <4>2. PICK pins \in Basis : pins = x.basis
          BY <1>6
        <4>3. PICK rights \in SUBSET Sources : rights = x.scope
          BY <1>6
        <4>4. d = [c EXCEPT !.scope = rights, !.evidence = pins, !.count = n,
                            !.manifest = "complete"]
          BY <3>1, <4>1, <4>2, <4>3
        <4>5. d \in Chat /\ d.id = c.id /\ d.basis = c.basis /\ d.evidence = pins
          BY <2>1, <4>1, <4>2, <4>3, <4>4 DEF Chat
        <4> QED
          BY <4>2, <4>5
      <3>3. c.basis = x.basis
        BY <1>1, <1>5, <2>2 DEF OwnChat, SaveEvidence
      <3> QED
        BY <2>2, <3>1, <3>2, <3>3
    <2>3. CASE c.id # x.chat
      BY <1>1, <2>1, <2>3 DEF EvidenceWhole
    <2> QED
      BY <2>2, <2>3
  <1> HIDE DEF F
  <1>9. (\A c \in chats' : c \in Chat) /\ EvidenceWhole'
    BY <1>1, <1>7, <1>8 DEF AnswersTypeOK, EvidenceWhole
  <1>10. OwnChat'
    <2>1. CASE chats' = chats
      BY <1>1, <1>3, <1>4, <2>1 DEF OwnChat, Asked
    <2>2. CASE chats' = {F(c) : c \in chats}
      <3>1. \A d \in chats' : \E c \in chats : d.id = c.id /\ d.basis = c.basis
        BY <1>8, <2>2
      <3> QED
        BY <1>3, <1>4, <3>1, AnswerRewritten
    <2> QED
      BY <1>7, <2>1, <2>2
  <1>11. AnswersTypeOK'
    BY <1>1, <1>2, <1>4, <1>9 DEF AnswersTypeOK, world
  <1> QED
    BY <1>9, <1>10, <1>11 DEF AnswersInv

LEMMA SourceDeleted ==
  ASSUME AnswersInv, NEW s \in Sources, Delete(s)
  PROVE  AnswersInv'
  <1>1. AnswersTypeOK /\ EvidenceWhole /\ OwnChat
    BY DEF AnswersInv
  <1> DEFINE F(c) == IF s \in SourcesOf(c.evidence)
                       THEN [c EXCEPT !.manifest = "incomplete",
                                      !.evidence = {pin \in c.evidence : pin[1] # s}]
                       ELSE c
  <1>2. chats' = {F(c) : c \in chats} /\ UNCHANGED <<readable, cache, lastChat, handler, edits>>
    BY DEF Delete
  <1>3. ASSUME NEW c \in chats
        PROVE  /\ F(c) \in Chat /\ F(c).id = c.id /\ F(c).basis = c.basis
               /\ F(c).manifest = "complete" => F(c).evidence = F(c).basis
    <2>1. c \in Chat
      BY <1>1 DEF AnswersTypeOK
    <2>2. CASE s \in SourcesOf(c.evidence)
      <3>1. PICK d : d = [c EXCEPT !.manifest = "incomplete",
                                   !.evidence = {pin \in c.evidence : pin[1] # s}]
        OBVIOUS
      <3>2. {pin \in c.evidence : pin[1] # s} \in Basis
        <4>1. PICK pins \in Basis : pins = c.evidence
          BY <2>1, ChatParts
        <4> QED
          BY <4>1, SmallerBasis
      <3>3. d \in Chat /\ d.id = c.id /\ d.basis = c.basis /\ d.manifest = "incomplete"
        BY <2>1, <3>1, <3>2, ChatIncomplete
      <3> QED
        BY <2>2, <3>1, <3>3
    <2>3. CASE s \notin SourcesOf(c.evidence)
      BY <1>1, <2>1, <2>3 DEF EvidenceWhole
    <2> QED
      BY <2>2, <2>3
  <1> HIDE DEF F
  <1>4. source' \in [Sources -> Source]
    <2>1. source[s] \in Source
      BY <1>1 DEF AnswersTypeOK
    <2>2. [source[s] EXCEPT !.there = FALSE] \in Source
      BY <2>1 DEF Source
    <2> QED
      BY <1>1, <2>2 DEF Delete, AnswersTypeOK
  <1>5. AnswersTypeOK'
    BY <1>1, <1>2, <1>3, <1>4 DEF AnswersTypeOK
  <1>6. EvidenceWhole'
    BY <1>2, <1>3 DEF EvidenceWhole
  <1>7. OwnChat'
    <2>1. \A d \in chats' : \E c \in chats : d.id = c.id /\ d.basis = c.basis
      BY <1>2, <1>3
    <2> QED
      BY <1>2, <2>1, AnswerRewritten
  <1> QED
    BY <1>5, <1>6, <1>7 DEF AnswersInv

\* Documents, rights and the cache change, or the history is cleared.
LEMMA AnswerWorld ==
  ASSUME AnswersInv, handler' = handler, lastChat' = lastChat,
         chats' = chats \/ chats' = {}
  PROVE  EvidenceWhole' /\ OwnChat' /\ \A c \in chats' : c \in Chat
  <1>1. EvidenceWhole'
    BY DEF AnswersInv, EvidenceWhole
  <1>2. OwnChat'
    BY DEF AnswersInv, OwnChat, Asked
  <1> QED
    BY <1>1, <1>2 DEF AnswersInv, AnswersTypeOK

LEMMA AnswersInvNext ==
  ASSUME AnswersInv, [AnswersNext]_answerVars
  PROVE  AnswersInv'
  <1>1. AnswersTypeOK
    BY DEF AnswersInv
  \* Steps of a handler that go on to another step or leave.
  <1>2. ASSUME NEW h \in Handlers, NEW x \in Question \cup {NoQuestion}, x.step # "evidence",
               handler' = [handler EXCEPT ![h] = x], UNCHANGED <<world, saved>>,
               \A entry \in cache' : entry \in CacheEntry
        PROVE  AnswersInv'
    <2>1. /\ handler' \in [Handlers -> Question \cup {NoQuestion}]
          /\ EvidenceWhole' /\ OwnChat'
      BY <1>2, AnswerQuiet
    <2>2. AnswersTypeOK'
      BY <1>1, <1>2, <2>1 DEF AnswersTypeOK, world, saved
    <2> QED
      BY <2>1, <2>2 DEF AnswersInv
  <1>3. ASSUME NEW h \in Handlers, NEW step, Asked(h, step), step # "idle",
               NEW to \in {"capture", "retrieve", "store", "row"}, Proceed(h, to),
               UNCHANGED <<world, saved>>, \A entry \in cache' : entry \in CacheEntry
        PROVE  AnswersInv'
    <2>1. handler[h] \in Question
      BY <1>1, <1>3, AskedParts
    <2>2. PICK x : x = [handler[h] EXCEPT !.step = to]
      OBVIOUS
    <2>3. x \in Question /\ x.step = to
      BY <2>1, <2>2, QuestionMoves
    <2>4. handler' = [handler EXCEPT ![h] = x]
      BY <1>3, <2>2 DEF Proceed
    <2> QED
      BY <1>2, <1>3, <2>3, <2>4
  <1>4. \A entry \in cache : entry \in CacheEntry
    BY <1>1 DEF AnswersTypeOK
  <1>5. ASSUME NEW h \in Handlers, Ask(h)
        PROVE  AnswersInv'
    <2>1. {} \in Basis
      BY FS_EmptySet DEF Basis
    <2>2. [step |-> "lookup", scope |-> readable, basis |-> {}, chat |-> 0] \in Question
      BY <1>1, <2>1 DEF Question, AnswersTypeOK
    <2>3. PICK x \in Question : x.step = "lookup" /\ handler' = [handler EXCEPT ![h] = x]
      BY <1>5, <2>2 DEF Ask
    <2> QED
      BY <1>2, <1>4, <1>5, <2>3 DEF Ask
  <1>6. ASSUME NEW h \in Handlers, MissCache(h) \/ CaptureReplay(h) \/ Generate(h)
        PROVE  AnswersInv'
    BY <1>3, <1>4, <1>6 DEF MissCache, CaptureReplay, Generate
  <1>7. ASSUME NEW h \in Handlers, CheckCurrent(h)
        PROVE  AnswersInv'
    <2>1. \A entry \in cache' : entry \in CacheEntry
      BY <1>4, <1>7 DEF CheckCurrent
    <2> QED
      BY <1>3, <1>7, <2>1 DEF CheckCurrent
  <1>8. ASSUME NEW h \in Handlers, NEW entry \in cache, FindEntry(h, entry)
        PROVE  AnswersInv'
    <2>1. handler[h] \in Question /\ entry.basis \in Basis
      BY <1>1, <1>4, <1>8, AskedParts DEF FindEntry, CacheEntry
    <2>2. PICK x : x = [handler[h] EXCEPT !.step = "current", !.basis = entry.basis]
      OBVIOUS
    <2>3. x \in Question /\ x.step = "current"
      BY <2>1, <2>2, QuestionFinds
    <2>4. handler' = [handler EXCEPT ![h] = x]
      BY <1>8, <2>2 DEF FindEntry
    <2> QED
      BY <1>2, <1>4, <1>8, <2>3, <2>4 DEF FindEntry
  <1>9. ASSUME NEW h \in Handlers, NEW found \in SUBSET Sources, Retrieve(h, found)
        PROVE  AnswersInv'
    <2>1. PICK pins \in Basis : pins = {<<s, source[s].revision>> : s \in found}
      BY <1>1, FoundBasis
    <2>2. handler[h] \in Question
      BY <1>1, <1>9, AskedParts DEF Retrieve
    <2>3. PICK x : x = [handler[h] EXCEPT !.step = "generate", !.basis = pins]
      OBVIOUS
    <2>4. x \in Question /\ x.step = "generate"
      BY <2>1, <2>2, <2>3, QuestionFinds
    <2>5. handler' = [handler EXCEPT ![h] = x]
      BY <1>9, <2>1, <2>3 DEF Retrieve
    <2> QED
      BY <1>2, <1>4, <1>9, <2>4, <2>5 DEF Retrieve
  <1>10. ASSUME NEW h \in Handlers, Store(h)
         PROVE  AnswersInv'
    <2>1. handler[h] \in Question
      BY <1>1, <1>10, AskedParts DEF Store
    <2>2. [basis |-> handler[h].basis, scope |-> handler[h].scope] \in CacheEntry
      BY <2>1, QuestionParts DEF CacheEntry
    <2>3. \A entry \in cache' : entry \in CacheEntry
      BY <1>4, <1>10, <2>2 DEF Store
    <2> QED
      BY <1>3, <1>10, <2>3 DEF Store
  <1>11. ASSUME NEW h \in Handlers, SaveChat(h) \/ SaveEvidence(h)
         PROVE  AnswersInv'
    BY <1>11, ChatSaved, EvidenceSaved
  <1>12. ASSUME NEW h \in Handlers, Abandon(h)
         PROVE  AnswersInv'
    BY <1>2, <1>4, <1>12 DEF Abandon, Answered, NoQuestion
  <1>13. ASSUME NEW s \in Sources, Edit(s) \/ Withdraw(s)
         PROVE  AnswersInv'
    <2>1. source[s] \in Source
      BY <1>1 DEF AnswersTypeOK
    <2>2. source[s].revision \in Nat
      BY <2>1 DEF Source
    <2>3. /\ [source[s] EXCEPT !.revision = source[s].revision + 1] \in Source
          /\ [source[s] EXCEPT !.servable = ~source[s].servable] \in Source
      <3>1. [source[s] EXCEPT !.revision = source[s].revision + 1] \in Source
        BY <2>1, <2>2 DEF Source
      <3>2. \A b \in BOOLEAN : [source[s] EXCEPT !.servable = b] \in Source
        BY <2>1 DEF Source
      <3> QED
        BY <3>1, <3>2
    <2>4. source' \in [Sources -> Source]
      BY <1>1, <1>13, <2>3 DEF Edit, Withdraw, AnswersTypeOK
    <2>5. edits' \in 0..MaxEdits
      BY <1>1, <1>13, AnswersAssumptions
         DEF AnswersAssumptions, Edit, Withdraw, AnswersTypeOK
    <2>6. UNCHANGED <<readable, cache, saved, handler>>
      BY <1>13 DEF Edit, Withdraw
    <2>7. EvidenceWhole' /\ OwnChat'
      BY <2>6, AnswerWorld DEF saved
    <2>8. AnswersTypeOK'
      BY <1>1, <2>4, <2>5, <2>6 DEF AnswersTypeOK, saved
    <2> QED
      BY <2>7, <2>8 DEF AnswersInv
  <1>14. ASSUME NEW s \in Sources, Delete(s)
         PROVE  AnswersInv'
    BY <1>14, SourceDeleted
  <1>15. ASSUME NEW rights \in SUBSET Sources, ChangeRights(rights)
         PROVE  AnswersInv'
    <2>1. AnswersTypeOK'
      BY <1>1, <1>15 DEF ChangeRights, AnswersTypeOK, saved
    <2> QED
      BY <1>15, <2>1, AnswerWorld DEF ChangeRights, saved, AnswersInv
  <1>16. CASE Invalidate \/ ClearHistory
    <2>1. EvidenceWhole' /\ OwnChat' /\ \A c \in chats' : c \in Chat
      BY <1>16, AnswerWorld DEF Invalidate, ClearHistory, saved
    <2>2. AnswersTypeOK'
      BY <1>1, <1>16, <2>1 DEF Invalidate, ClearHistory, AnswersTypeOK, world, saved
    <2> QED
      BY <2>1, <2>2 DEF AnswersInv
  <1>17. CASE UNCHANGED answerVars
    <2>1. AnswersTypeOK'
      BY <1>1, <1>17 DEF answerVars, AnswersTypeOK
    <2> QED
      BY <1>17, <2>1, AnswerWorld DEF answerVars, AnswersInv
  <1> QED
    BY <1>5, <1>6, <1>7, <1>8, <1>9, <1>10, <1>11, <1>12, <1>13, <1>14, <1>15, <1>16, <1>17
       DEF AnswersNext

LEMMA AnswersInvAlways == AnswersSpec => []AnswersInv
  <1>1. AnswersInit => AnswersInv
    BY AnswersTypeInit
       DEF AnswersInv, AnswersInit, EvidenceWhole, OwnChat, Asked, NoQuestion
  <1> QED
    BY <1>1, AnswersInvNext, PTL DEF AnswersSpec

\* Types of the variables.
THEOREM AnswersTypes == AnswersSpec => []AnswersTypeOK
  <1>1. AnswersInv => AnswersTypeOK
    BY DEF AnswersInv
  <1> QED
    BY <1>1, AnswersInvAlways, PTL

\* For any number of sources, questions and answers.
THEOREM HistoryIsReadableAlways == AnswersSpec => []HistoryIsReadable
  <1>1. AnswersInv => HistoryIsReadable
    BY DEF AnswersInv, EvidenceWhole, HistoryIsReadable, ChatShown
  <1> QED
    BY <1>1, AnswersInvAlways, PTL

-----------------------------------------------------------------------------
(* The components side by side: a behaviour of MCSpec is one of each of them. *)

LEMMA RunsSessions == MCSpec => SessionsSpec
  <1>1. MCInit => SessionsInit
    BY DEF MCInit
  <1>2. [MCNext]_accessVars => [SessionsNext]_sessionVars
    BY DEF MCNext, Follow, accessVars
  <1> QED
    BY <1>1, <1>2, PTL DEF MCSpec, SessionsSpec

LEMMA RunsAccounts == MCSpec => AccountsSpec
  <1>1. MCInit => AccountsInit
    BY DEF MCInit
  <1>2. [MCNext]_accessVars => [AccountsNext]_accountVars
    BY DEF MCNext, Follow, OfAccounts, OfMembers, accessVars
  <1> QED
    BY <1>1, <1>2, PTL DEF MCSpec, AccountsSpec

LEMMA RunsRollout == MCSpec => RolloutSpec
  <1>1. MCInit => RolloutInit
    BY DEF MCInit
  <1>2. [MCNext]_accessVars => [RolloutNext]_rolloutVars
    BY DEF MCNext, Follow, accessVars
  <1> QED
    BY <1>1, <1>2, PTL DEF MCSpec, RolloutSpec

LEMMA RunsPolicy == MCSpec => PolicySpec
  <1>1. MCInit => PolicyInit
    BY DEF MCInit
  <1>2. [MCNext]_accessVars => [PolicyNext]_policyVars
    BY DEF MCNext, Follow, accessVars
  <1> QED
    BY <1>1, <1>2, PTL DEF MCSpec, PolicySpec

LEMMA RunsMove == MCSpec => MoveSpec
  <1>1. MCInit => MoveInit
    BY DEF MCInit
  <1>2. [MCNext]_accessVars => [MoveNext]_moveVars
    BY DEF MCNext, Follow, accessVars
  <1> QED
    BY <1>1, <1>2, PTL DEF MCSpec, MoveSpec

LEMMA RunsAnswers == MCSpec => AnswersSpec
  <1>1. MCInit => AnswersInit
    BY DEF MCInit
  <1>2. [MCNext]_accessVars => [AnswersNext]_answerVars
    BY DEF MCNext, Follow, accessVars
  <1> QED
    BY <1>1, <1>2, PTL DEF MCSpec, AnswersSpec

\* Nothing is lost by looking at one component at a time: what is shown of a component
\* by itself holds beside the others.
THEOREM ComponentsRun ==
  MCSpec => /\ SessionsSpec /\ AccountsSpec /\ RolloutSpec
            /\ PolicySpec /\ MoveSpec /\ AnswersSpec
  BY RunsSessions, RunsAccounts, RunsRollout, RunsPolicy, RunsMove, RunsAnswers

\* Every variable of every component keeps its type, whichever one moves.
THEOREM AccessTypes == MCSpec => []AccessTypeOK
  <1>1. /\ SessionsTypeOK /\ AccountsTypeOK /\ RolloutTypeOK
        /\ PolicyTypeOK /\ MoveTypeOK /\ AnswersTypeOK
        => AccessTypeOK
    BY DEF AccessTypeOK
  <1> QED
    BY <1>1, ComponentsRun, SessionsTypes, AccountsTypes, RolloutTypes, PolicyTypes,
       MoveTypes, AnswersTypes, PTL
=============================================================================
