------------------------------ MODULE Answers ------------------------------
(***************************************************************************)
(* What an answer rests on, and who may see it again: answers of one user, *)
(* replayed from the semantic cache or read in the chat history, while the *)
(* documents they rest on are edited, withdrawn and deleted and the rights *)
(* of the user change.  A handler checks in several transactions; each     *)
(* reads one snapshot.                                                     *)
(*                                                                         *)
(* A source is a page of a document with the metadata that is hashed with  *)
(* it; a pin is a source and the revision of it that was read.  The rights *)
(* of the user are the set of sources they let him read.  Left out: how    *)
(* questions are compared, dates of validity, structured records (their    *)
(* snapshots are pinned in the same way), and the readers of history       *)
(* versions, who never use the cache.                                      *)
(***************************************************************************)
EXTENDS Naturals, FiniteSets

CONSTANTS
  Sources,
  Handlers,    \* slots for questions in flight
  MaxEdits,    \* bound: revisions of sources
  MaxEntries,  \* bound: entries of the cache
  MaxChats     \* bound: answers saved

ASSUME AnswersAssumptions ==
  /\ IsFiniteSet(Sources)
  /\ {MaxEdits, MaxEntries, MaxChats} \subseteq Nat

VARIABLES
  source,    \* what SQL says of each source
  readable,  \* the sources that the user's rights cover
  cache,     \* SemanticCache
  chats,     \* LichSuChat with ChatEvidenceManifest and AnswerEvidence, one session
  lastChat,  \* the last ChatID given out
  handler,   \* the questions being answered
  edits      \* revisions so far

answerVars == <<source, readable, cache, chats, lastChat, handler, edits>>

-----------------------------------------------------------------------------
(* Data *)

Source == [there : BOOLEAN, servable : BOOLEAN, revision : Nat]
Pin == Sources \X Nat
Basis == {pins \in SUBSET Pin : IsFiniteSet(pins)}

\* scope: the rights for which the entry was made.
CacheEntry == [basis : Basis, scope : SUBSET Sources]

\* basis, a ghost: what the answer was generated from; evidence: the rows of
\* AnswerEvidence that are left; count: their number at the time of saving.
Chat == [id : Nat, basis : Basis, scope : SUBSET Sources, evidence : Basis, count : Nat,
         manifest : {"missing", "complete", "incomplete"}]

Question == [step : {"lookup", "current", "capture", "retrieve", "generate", "store", "row", "evidence"},
             scope : SUBSET Sources, basis : Basis, chat : Nat]
NoQuestion == [step |-> "idle"]

SourcesOf(basis) == {pin[1] : pin \in basis}

\* source_allowed for an actor with these rights: _source and the comparison of the hashes.
PinHolds(pin, rights) ==
  /\ source[pin[1]].there /\ source[pin[1]].servable
  /\ source[pin[1]].revision = pin[2]
  /\ pin[1] \in rights

\* capture_sources succeeds.
AllHold(basis, rights) == \A pin \in basis : PinHolds(pin, rights)

\* effective_actor: what the user may read now and could read when he asked.
EffectiveRights(h) == readable \cap handler[h].scope

AnswersInit ==
  /\ source = [s \in Sources |-> [there |-> TRUE, servable |-> TRUE, revision |-> 0]]
  /\ readable = Sources
  /\ cache = {}
  /\ chats = {}
  /\ lastChat = 0
  /\ handler = [h \in Handlers |-> NoQuestion]
  /\ edits = 0

-----------------------------------------------------------------------------
(* Steps of a handler *)

Asked(h, step) == handler[h].step = step

Proceed(h, step) == handler' = [handler EXCEPT ![h].step = step]

Answered(h) == handler' = [handler EXCEPT ![h] = NoQuestion]

world == <<source, readable, edits>>
saved == <<chats, lastChat>>

\* The profile of the user is read once, when the question arrives.
Ask(h) ==
  /\ handler[h] = NoQuestion
  /\ handler' = [handler EXCEPT ![h] =
       [step |-> "lookup", scope |-> readable, basis |-> {}, chat |-> 0]]
  /\ UNCHANGED <<world, cache, saved>>

\* lookup_exact and lookup: an entry made for the same rights, or none.
FindEntry(h, entry) ==
  /\ Asked(h, "lookup")
  /\ entry.scope = handler[h].scope
  /\ handler' = [handler EXCEPT ![h].step = "current", ![h].basis = entry.basis]
  /\ UNCHANGED <<world, cache, saved>>

MissCache(h) ==
  /\ Asked(h, "lookup")
  /\ Proceed(h, "retrieve")
  /\ UNCHANGED <<world, cache, saved>>

\* sc_docs_all_current; an entry that fails is deleted.
CheckCurrent(h) ==
  LET x == handler[h] IN
  /\ Asked(h, "current")
  /\ IF \A s \in SourcesOf(x.basis) : source[s].there /\ source[s].servable
       THEN Proceed(h, "capture") /\ UNCHANGED cache
       ELSE /\ Proceed(h, "retrieve")
            /\ cache' = cache \ {[basis |-> x.basis, scope |-> x.scope]}
  /\ UNCHANGED <<world, saved>>

\* The last check, in one transaction that reads the user's rights again; the answer goes
\* out right after it.
CaptureReplay(h) ==
  /\ Asked(h, "capture")
  /\ IF AllHold(handler[h].basis, EffectiveRights(h))
       THEN Proceed(h, "row") ELSE Proceed(h, "retrieve")
  /\ UNCHANGED <<world, cache, saved>>

\* pin_generation_evidence: retrieved sources that cannot be certified are left out.
Retrieve(h, found) ==
  LET pins == {<<s, source[s].revision>> : s \in found} IN
  /\ Asked(h, "retrieve")
  /\ found # {} /\ AllHold(pins, EffectiveRights(h))
  /\ handler' = [handler EXCEPT ![h].step = "generate", ![h].basis = pins]
  /\ UNCHANGED <<world, cache, saved>>

\* Only a stream that ran to its end is stored.
Generate(h) ==
  /\ Asked(h, "generate")
  /\ Proceed(h, "store")
  /\ UNCHANGED <<world, cache, saved>>

\* sc_put, best effort.
Store(h) ==
  /\ Asked(h, "store")
  /\ \/ /\ Cardinality(cache) < MaxEntries
        /\ cache' = cache \cup {[basis |-> handler[h].basis, scope |-> handler[h].scope]}
     \/ UNCHANGED cache
  /\ Proceed(h, "row")
  /\ UNCHANGED <<world, saved>>

\* save_chat_history; the manifest comes in a second transaction.
SaveChat(h) ==
  LET id == lastChat + 1 IN
  /\ Asked(h, "row")
  /\ lastChat < MaxChats
  /\ lastChat' = id
  /\ chats' = chats \cup {[id |-> id, basis |-> handler[h].basis, scope |-> {},
                           evidence |-> {}, count |-> 0, manifest |-> "missing"]}
  /\ handler' = [handler EXCEPT ![h].step = "evidence", ![h].chat = id]
  /\ UNCHANGED <<world, cache>>

\* Mutant of SaveEvidence: the sources that still hold are saved, and the others dropped.
SaveEvidenceLeft(h) ==
  LET x == handler[h]
      left == {pin \in x.basis : PinHolds(pin, x.scope)}
  IN
  /\ Asked(h, "evidence")
  /\ chats' = {IF c.id = x.chat
                 THEN [c EXCEPT !.scope = x.scope, !.evidence = left,
                                !.count = Cardinality(left), !.manifest = "complete"]
                 ELSE c : c \in chats}
  /\ Answered(h)
  /\ UNCHANGED <<world, cache, lastChat>>

\* save_answer_evidence: every source is checked and pinned once more, under the rights the
\* question was asked with, or nothing is written.
SaveEvidence(h) ==
  LET x == handler[h] IN
  /\ Asked(h, "evidence")
  /\ chats' = IF AllHold(x.basis, x.scope)
       THEN {IF c.id = x.chat
               THEN [c EXCEPT !.scope = x.scope, !.evidence = x.basis,
                              !.count = Cardinality(x.basis), !.manifest = "complete"]
               ELSE c : c \in chats}
       ELSE chats
  /\ Answered(h)
  /\ UNCHANGED <<world, cache, lastChat>>

\* No evidence, an error, a cancelled stream or a crash.
Abandon(h) ==
  /\ handler[h] # NoQuestion
  /\ Answered(h)
  /\ UNCHANGED <<world, cache, saved>>

-----------------------------------------------------------------------------
(* Documents and rights change *)

Edit(s) ==
  /\ edits < MaxEdits
  /\ source' = [source EXCEPT ![s].revision = @ + 1]
  /\ edits' = edits + 1
  /\ UNCHANGED <<readable, cache, saved, handler>>

\* Published, withdrawn: archived, rejected, superseded, expired.
Withdraw(s) ==
  /\ source' = [source EXCEPT ![s].servable = ~@]
  /\ UNCHANGED <<readable, cache, saved, handler, edits>>

\* The third step of delete_document_completely, with what it does to the history.
Delete(s) ==
  /\ source[s].there
  /\ source' = [source EXCEPT ![s].there = FALSE]
  /\ chats' = {IF s \in SourcesOf(c.evidence)
                 THEN [c EXCEPT !.manifest = "incomplete",
                                !.evidence = {pin \in c.evidence : pin[1] # s}]
                 ELSE c : c \in chats}
  /\ UNCHANGED <<readable, cache, lastChat, handler, edits>>

ChangeRights(rights) ==
  /\ readable' = rights
  /\ UNCHANGED <<source, cache, saved, handler, edits>>

\* _invalidate_semantic_cache comes after the change that calls for it, if it comes.
Invalidate ==
  /\ cache' = {}
  /\ UNCHANGED <<world, saved, handler>>

\* clear_chat_history; a manifest that comes after it finds no row.
ClearHistory ==
  /\ chats' = {}
  /\ UNCHANGED <<world, cache, lastChat, handler>>

AnswersNext ==
  \/ \E h \in Handlers :
       \/ Ask(h) \/ MissCache(h) \/ CheckCurrent(h) \/ CaptureReplay(h) \/ Generate(h)
       \/ Store(h) \/ SaveChat(h) \/ SaveEvidence(h) \/ Abandon(h)
       \/ \E entry \in cache : FindEntry(h, entry)
       \/ \E found \in SUBSET Sources : Retrieve(h, found)
  \/ \E s \in Sources : Edit(s) \/ Withdraw(s) \/ Delete(s)
  \/ \E rights \in SUBSET Sources : ChangeRights(rights)
  \/ Invalidate
  \/ ClearHistory

AnswersSpec == AnswersInit /\ [][AnswersNext]_answerVars

-----------------------------------------------------------------------------
(* get_chat_history, in one snapshot *)

\* _history_source_redactions and _history_pins_current keep the answer.
ChatShown(c) ==
  /\ c.manifest = "complete"
  /\ Cardinality(c.evidence) = c.count
  /\ c.scope = readable
  /\ AllHold(c.evidence, readable)

-----------------------------------------------------------------------------
(* Properties *)

\* Types of the variables.
AnswersTypeOK ==
  /\ source \in [Sources -> Source]
  /\ readable \subseteq Sources
  /\ \A entry \in cache : entry \in CacheEntry
  /\ \A c \in chats : c \in Chat
  /\ lastChat \in 0..MaxChats
  /\ handler \in [Handlers -> Question \cup {NoQuestion}]
  /\ edits \in 0..MaxEdits

\* An answer that the history shows rests only on sources the user may read now, in the
\* revision it was generated from: whether it was generated or replayed, whatever
\* changed while it was being saved, and whatever was deleted since.
HistoryIsReadable == \A c \in chats : ChatShown(c) => AllHold(c.basis, readable)
=============================================================================
