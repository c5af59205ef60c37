---------------------------- MODULE AccessPolicy ----------------------------
(***************************************************************************)
(* Who may read a document in service.  The rule is written down six       *)
(* times: in the filter of the vector search, the check of what was found, *)
(* protected downloads, the parts lists in SQL, the list of documents, the *)
(* history of answers; and once more in the probe that explains why an     *)
(* exact part number was not found.  The rights and the document change    *)
(* one table at a time, so that every combination is reached.              *)
(*                                                                         *)
(* Left out: letter case and blanks; history readers and previews for      *)
(* reviewers, who see documents that are not in service; the folder of a   *)
(* document, which is one of the departments it is shared with.            *)
(***************************************************************************)
EXTENDS Naturals

CONSTANTS
  Units,       \* departments
  SharedUnit,  \* SHARE_ALL_DEPARTMENT
  Sites,
  NoValue      \* a missing security level or site

ASSUME PolicyAssumptions == SharedUnit \notin Units /\ NoValue \notin Sites

VARIABLES
  profile,     \* the user's rights as SQL has them now
  execution,   \* the rights with which his question was accepted
  record,      \* the document
  strictSites  \* strict_site_filter

policyVars == <<profile, execution, record, strictSites>>

-----------------------------------------------------------------------------
(* Data *)

ClearanceLevels == {"public", "internal", "confidential"}

\* LEVEL_ORDER
Rank == [public |-> 0, internal |-> 1, confidential |-> 2]

\* "viewer" stands for every role that is no bypass.
Profile == [roles : SUBSET {"admin", "viewer"}, units : SUBSET Units,
            clearance : ClearanceLevels, sites : SUBSET Sites]

\* NULL or empty for the level and the site of old documents.
Record == [units : SUBSET (Units \cup {SharedUnit}), level : ClearanceLevels \cup {"missing"},
           site : Sites \cup {NoValue}]

NewProfile == [roles |-> {}, units |-> {}, clearance |-> "public", sites |-> {}]

PolicyInit ==
  /\ profile = NewProfile
  /\ execution = NewProfile
  /\ record = [units |-> {}, level |-> "internal", site |-> NoValue]
  /\ strictSites \in BOOLEAN

-----------------------------------------------------------------------------
(* The parts of the rule *)

IsAdmin(p) == "admin" \in p.roles

SharedWith(p, r) == r.units \cap (p.units \cup {SharedUnit}) # {}

\* A missing level counts as confidential.
SecurityLevel(r) == IF r.level = "missing" THEN "confidential" ELSE r.level

Cleared(p, r) == Rank[SecurityLevel(r)] <= Rank[p.clearance]

\* _site_filter: a user without sites is denied; the old mode lets documents without
\* a site pass.
SiteFilter(p, r) ==
  /\ p.sites # {}
  /\ r.site \in p.sites \/ (~strictSites /\ r.site = NoValue)

-----------------------------------------------------------------------------
(* The places where it is decided *)

\* create_rbac_filter, evaluated by the vector store on the copy of the record.
FilterPasses(p, r) ==
  \/ IsAdmin(p)
  \/ p.roles # {} /\ SharedWith(p, r) /\ Cleared(p, r) /\ SiteFilter(p, r)

\* document_matches_access_scope, on what the search returned.
InAccessScope(p, r) ==
  /\ r.units # {} /\ r.level # "missing" /\ r.site # NoValue
  /\ p.roles # {}
  /\ \/ IsAdmin(p)
     \/ Cleared(p, r) /\ r.site \in p.sites /\ SharedWith(p, r)

\* evaluate_document_access, for downloads, the cache and pinned sources; it does not
\* ask for a role.
MayOpen(p, r) ==
  \/ IsAdmin(p)
  \/ SharedWith(p, r) /\ Cleared(p, r) /\ SiteFilter(p, r)

\* Mutant of BomFilter: the parts list is open to whoever shares the department.
BomFilterUnclassified(p, r) ==
  \/ IsAdmin(p)
  \/ SharedWith(p, r) /\ SiteFilter(p, r)

\* search_bom's conditions.
BomFilter(p, r) ==
  \/ IsAdmin(p)
  \/ /\ SharedWith(p, r)
     /\ IF r.level = "missing" THEN p.clearance = "confidential" ELSE Cleared(p, r)
     /\ SiteFilter(p, r)

\* _document_access_filters
Listed(p, r) ==
  \/ IsAdmin(p)
  \/ SharedWith(p, r) /\ Cleared(p, r) /\ SiteFilter(p, r)

\* _history_source_redactions keeps an answer that rests on the document; in the old
\* mode it does not ask whether the user has a site at all.
KeptInHistory(p, r) ==
  \/ IsAdmin(p)
  \/ /\ Cleared(p, r) /\ SharedWith(p, r)
     /\ r.site \in p.sites \/ (~strictSites /\ r.site = NoValue)

\* Mutant of ProbeBlocks: a user without sites is not told.
ProbeBlocksAssigned(p, r) ==
  \/ ~SharedWith(p, r)
  \/ ~Cleared(p, r)
  \/ p.sites # {} /\ r.site \notin p.sites

\* probe_restricted_access: the document is there and some right is missing.
ProbeBlocks(p, r) ==
  \/ ~SharedWith(p, r)
  \/ ~Cleared(p, r)
  \/ p.sites = {} \/ r.site \notin p.sites

\* Mutant of EffectiveActor: only the clearance is compared with the present one.
EffectiveActorAsAsked(current, requested) ==
  [requested EXCEPT !.clearance = IF Rank[@] < Rank[current.clearance]
                                    THEN @ ELSE current.clearance]

\* effective_actor: the rights of a question are those with which it was accepted, as
\* far as they are still there.
EffectiveActor(current, requested) ==
  LET admin == IsAdmin(current) IN
  [roles     |-> (current.roles \cap requested.roles)
                   \cup (IF admin THEN {"viewer"} \cap requested.roles ELSE {}),
   units     |-> IF admin THEN requested.units ELSE requested.units \cap current.units,
   clearance |-> IF Rank[requested.clearance] < Rank[current.clearance]
                   THEN requested.clearance ELSE current.clearance,
   sites     |-> IF admin THEN requested.sites ELSE requested.sites \cap current.sites]

-----------------------------------------------------------------------------
(* Changes *)

ChangeProfile(p) ==
  /\ profile' = p
  /\ UNCHANGED <<execution, record, strictSites>>

\* update_user_active_and_roles
ChangeRoles(rs) == ChangeProfile([profile EXCEPT !.roles = rs])

\* set_user_departments
ChangeUnits(us) == ChangeProfile([profile EXCEPT !.units = us])

\* set_user_clearance
ChangeClearance(level) == ChangeProfile([profile EXCEPT !.clearance = level])

\* set_user_sites
ChangeSites(ss) == ChangeProfile([profile EXCEPT !.sites = ss])

\* A question is accepted with the profile of that moment.
AcceptQuestion ==
  /\ execution' = profile
  /\ UNCHANGED <<profile, record, strictSites>>

\* update_document_classification and the other forms of metadata.
Reclassify(r) ==
  /\ record' = r
  /\ UNCHANGED <<profile, execution, strictSites>>

ShareWith(us) == Reclassify([record EXCEPT !.units = us])
SetLevel(level) == Reclassify([record EXCEPT !.level = level])
SetSite(site) == Reclassify([record EXCEPT !.site = site])

PolicyNext ==
  \/ \E rs \in SUBSET {"admin", "viewer"} : ChangeRoles(rs)
  \/ \E us \in SUBSET Units : ChangeUnits(us)
  \/ \E level \in ClearanceLevels : ChangeClearance(level)
  \/ \E ss \in SUBSET Sites : ChangeSites(ss)
  \/ AcceptQuestion
  \/ \E us \in SUBSET (Units \cup {SharedUnit}) : ShareWith(us)
  \/ \E level \in ClearanceLevels \cup {"missing"} : SetLevel(level)
  \/ \E site \in Sites \cup {NoValue} : SetSite(site)

PolicySpec == PolicyInit /\ [][PolicyNext]_policyVars

-----------------------------------------------------------------------------
(* Properties *)

\* Types of the variables.
PolicyTypeOK ==
  /\ profile \in Profile
  /\ execution \in Profile
  /\ record \in Record
  /\ strictSites \in BOOLEAN

Governed(r) == r.units # {} /\ r.level # "missing" /\ r.site # NoValue

\* For users with a role, search, downloads, parts lists and the list of documents agree
\* on every document, and the history with them in strict mode; the check after the
\* search lets nothing more through, and withholds only incomplete documents.
PoliciesAgree ==
  LET searched == FilterPasses(profile, record) IN
  profile.roles # {} =>
    /\ MayOpen(profile, record) = searched
    /\ BomFilter(profile, record) = searched
    /\ Listed(profile, record) = searched
    /\ strictSites => KeptInHistory(profile, record) = searched
    /\ InAccessScope(profile, record) = (searched /\ Governed(record))

\* In strict mode a part number of a document in service is either found or reported as
\* restricted, never both and never neither.
DenialIsExplained ==
  (strictSites /\ profile.roles # {} /\ ~IsAdmin(profile)) =>
    ProbeBlocks(profile, record) = ~FilterPasses(profile, record)

\* What a question that is being answered may use, its user might use when he asked and
\* still may: rights that come or go meanwhile never add up.
RightsNeverAddUp ==
  MayOpen(EffectiveActor(profile, execution), record) =>
    MayOpen(profile, record) /\ MayOpen(execution, record)
=============================================================================
