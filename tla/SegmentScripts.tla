--------------------------- MODULE SegmentScripts ---------------------------
(***************************************************************************)
(* The two maintenance scripts that rewrite the segments (tags) of a       *)
(* namespace while the server is running: backfill_namespace_tags.py       *)
(* proposes a segment for every untagged chat and memory and stamps them;  *)
(* promote_namespace_tag.py moves a segment to a namespace of its own.     *)
(*                                                                         *)
(* A script reads in several statements and writes in one transaction,     *)
(* whose rows stay locked until it commits: the writes are one step, every *)
(* statement before them one of its own.  Requests and tag tasks appear    *)
(* with their committed effects, as in NamespaceUpkeep.                    *)
(***************************************************************************)
EXTENDS NamespaceUpkeep, SequencesExt

CONSTANTS
    SegChats,   \* chats, numbered in the order the scripts read them
    SegMems,    \* memories, numbered after the chats
    Source,     \* the chat each memory was bridged from, None for a direct one
    Hash,       \* content_hash of each memory
    Homes,      \* namespaces
    Home,       \* the one the chats are captured in
    Staging,    \* those of is_pending_namespace
    Slugs,      \* segment names
    Near,       \* pairs of segments whose slugs or labels are alike
    Proposals,  \* what propose_segment can answer
    MinItems,   \* --min-items
    MaxEdits    \* bound on the requests of a behaviour

SegItems == SegChats \cup SegMems

ASSUME SegmentAssumption ==
    /\ SegItems \subseteq Nat /\ IsFiniteSet(SegItems) /\ \A c \in SegChats, m \in SegMems : c < m
    /\ Source \in [SegMems -> SegChats \cup {None}]
    /\ Staging \subseteq Homes /\ Home \in Homes
    /\ \A s \in Slugs : <<s, s>> \in Near
    /\ \A p \in Proposals : p.slug \in Slugs
    /\ MinItems \in Nat \ {0} /\ MaxEdits \in Nat

VARIABLES
    item,     \* the chat and memory rows
    art,      \* the namespace column of each chat's artifacts
    profile,  \* each NamespaceTag row
    script,   \* the script that runs
    edits

segVars == <<item, art, profile, script, edits>>

Entities == UNION {p.entities : p \in Proposals}
Group == [slug : Slugs, entities : SUBSET Entities, members : Seq(SegItems)]
Script == [pc : {"idle", "mems", "propose", "apply", "pchats", "pmems", "preflight", "move", "done"},
           ns : Homes \cup {None}, tag : Slugs \cup {None}, to : Homes \cup {None},
           chats : SUBSET SegChats, fresh : SUBSET SegChats, mems : SUBSET SegMems,
           groups : Seq(Group), steady : SUBSET SegItems]
Item == [life : {"absent", "live", "gone"}, ns : Homes, tag : Slugs \cup {None}]
NoScript == [pc |-> "idle", ns |-> None, tag |-> None, to |-> None, chats |-> {}, fresh |-> {},
             mems |-> {}, groups |-> <<>>, steady |-> {}]
Ended == [NoScript EXCEPT !.pc = "done"]

\* Chats are captured in one namespace; memories come later.
SegInit ==
    /\ Init
    /\ item = [x \in SegItems |-> [life |-> IF x \in SegChats THEN "live" ELSE "absent",
                                   ns |-> Home, tag |-> None]]
    /\ art = [c \in SegChats |-> item[c].ns]
    /\ profile = [s \in Homes \X Slugs |-> "none"]
    /\ script = NoScript /\ edits = 0

Alive(S, ns) == {x \in S : item[x].life = "live" /\ item[x].ns = ns}

\* uq_memories_user_ns_hash.
Collides(m, ns) == \E n \in Alive(SegMems, ns) \ {m} : Hash[n] = Hash[m]

-----------------------------------------------------------------------------
(* Requests and tag tasks                                                  *)

\* What comes after the script meets nothing of it any more and is left out.
Edit(rows, S) ==
    /\ "segments" \in mix.ops /\ script.pc # "done"
    /\ edits < MaxEdits /\ edits' = edits + 1
    /\ item' = rows /\ script' = [script EXCEPT !.steady = @ \ S]
    /\ UNCHANGED vars

\* move_chat clears the tag and takes the artifacts along.
MoveSegChat(c, ns) ==
    /\ item[c].life = "live"
    /\ Edit([item EXCEPT ![c].ns = ns, ![c].tag = None], {c})
    /\ art' = [art EXCEPT ![c] = ns]
    /\ UNCHANGED profile

\* create_memory, whose caller may name a tag.
CreateSegMem(m, ns, tag) ==
    /\ item[m].life = "absent" /\ ~Collides(m, ns)
    /\ Edit([item EXCEPT ![m] = [life |-> "live", ns |-> ns, tag |-> tag]], {m})
    /\ UNCHANGED <<art, profile>>

DeleteSegItem(x) ==
    /\ item[x].life = "live"
    /\ Edit([item EXCEPT ![x].life = "gone"], {x})
    /\ UNCHANGED <<art, profile>>

\* resolve_tag_for_chat: an inactive profile of the slug is used as it is,
\* and the chat's untagged memories in its namespace follow.
TagSegChat(c, slug) ==
    LET home == item[c].ns
        follows(x) == x = c \/ /\ x \in SegMems /\ Source[x] = c /\ item[x].life # "absent"
                               /\ item[x].ns = home /\ item[x].tag = None
    IN /\ item[c].life = "live" /\ item[c].tag = None /\ home \notin Staging
       /\ Edit([x \in SegItems |-> IF follows(x) THEN [item[x] EXCEPT !.tag = slug] ELSE item[x]],
               {x \in SegItems : follows(x)})
       /\ profile' = [profile EXCEPT ![<<home, slug>>] = IF @ = "none" THEN "active" ELSE @]
       /\ UNCHANGED art

-----------------------------------------------------------------------------
(* backfill_namespace_tags.py --apply                                      *)

Advance(r) == script' = r /\ UNCHANGED <<vars, item, art, profile, edits>>

\* _load_namespace_items: the chats of the namespace, and which of them have
\* no tag ...
BackfillChats(ns) ==
    /\ "segments" \in mix.ops /\ script.pc = "idle" /\ ns \notin Staging
    /\ Advance([NoScript EXCEPT !.pc = "mems", !.ns = ns, !.chats = Alive(SegChats, ns),
                   !.fresh = {c \in Alive(SegChats, ns) : item[c].tag = None}])

Bridged(m) == Source[m] \in script.chats

\* ... and the untagged memories; those of a chat of the namespace are no
\* items, they follow their chat.
BackfillMems ==
    LET mems  == {m \in Alive(SegMems, script.ns) : item[m].tag = None}
        items == script.fresh \cup {m \in mems : ~Bridged(m)}
    IN /\ script.pc = "mems"
       /\ Advance(IF Cardinality(items) < MinItems THEN Ended
                  ELSE [script EXCEPT !.pc = "propose", !.mems = mems])

Fits(g, p) == p.entities \cap g.entities # {} \/ <<p.slug, g.slug>> \in Near

\* The first group that fits takes the item, or the item opens one.
Place(groups, x, p) ==
    LET fits == {i \in DOMAIN groups : Fits(groups[i], p)}
    IN IF fits = {}
       THEN Append(groups, [slug |-> p.slug, entities |-> p.entities, members |-> <<x>>])
       ELSE [groups EXCEPT ![Min(fits)].entities = @ \cup p.entities,
                           ![Min(fits)].members = Append(@, x)]

\* The items are taken in ascending order.
GroupItems(items, proposal) ==
    MapThenFoldSet(LAMBDA x, groups : IF proposal[x] = None THEN groups
                                      ELSE Place(groups, x, proposal[x]),
                   <<>>, LAMBDA x : x, LAMBDA S : Max(S), items)

\* The proposals are asked for concurrently; each may fail (None).
BackfillPropose ==
    LET items == script.fresh \cup {m \in script.mems : ~Bridged(m)}
    IN /\ script.pc = "propose"
       /\ \E proposal \in [items -> Proposals \cup {None}] :
             LET groups == GroupItems(items, proposal)
             IN  Advance(IF groups = <<>> THEN Ended
                         ELSE [script EXCEPT !.pc = "apply", !.groups = groups])

\* The segment a row is to have: that of its group, or of its chat's.
Proposed(x) ==
    LET lead == IF x \in SegMems /\ Bridged(x) THEN Source[x] ELSE x
        of   == {g \in Range(script.groups) : lead \in Range(g.members)}
    IN IF x \in script.fresh \cup script.mems /\ of # {} THEN (CHOOSE g \in of : TRUE).slug ELSE None

MutStamped(x) == IF Proposed(x) # None THEN [item[x] EXCEPT !.tag = Proposed(x)] ELSE item[x]

\* The UPDATE tests the tag again, and neither the namespace nor the life.
Stamped(x) ==
    IF item[x].tag = None /\ Proposed(x) # None THEN [item[x] EXCEPT !.tag = Proposed(x)]
    ELSE item[x]

\* _apply_groups and the commit.
BackfillApply ==
    /\ script.pc = "apply"
    /\ item' = [x \in SegItems |-> Stamped(x)]
    /\ profile' = [s \in DOMAIN profile |->
                      IF /\ profile[s] = "none" /\ s[1] = script.ns
                         /\ s[2] \in {g.slug : g \in Range(script.groups)}
                      THEN "active" ELSE profile[s]]
    /\ script' = Ended
    /\ UNCHANGED <<vars, art, edits>>

-----------------------------------------------------------------------------
(* promote_namespace_tag.py                                                *)

Segment(ns, tag, S) == {x \in Alive(S, ns) : item[x].tag = tag}

\* Without an active profile the script ends.
PromoteStart(ns, tag, to) ==
    /\ "segments" \in mix.ops /\ script.pc = "idle" /\ ns # to
    /\ profile[<<ns, tag>>] = "active"
    /\ Advance([NoScript EXCEPT !.pc = "pchats", !.ns = ns, !.tag = tag, !.to = to,
                   !.steady = Segment(ns, tag, SegItems)])

PromoteChats ==
    /\ script.pc = "pchats"
    /\ Advance([script EXCEPT !.pc = "pmems", !.chats = Segment(script.ns, script.tag, SegChats)])

PromoteMems ==
    /\ script.pc = "pmems"
    /\ Advance([script EXCEPT !.pc = "preflight", !.mems = Segment(script.ns, script.tag, SegMems)])

\* A collision with a memory of the destination ends the script, and so does
\* the report of a dry run.
Preflight(dry) ==
    LET clash == \E m \in script.mems : Collides(m, script.to)
    IN /\ script.pc = "preflight"
       /\ Advance(IF clash \/ dry THEN Ended ELSE [script EXCEPT !.pc = "move"])

Moved(S) == [x \in SegItems |-> IF x \in S THEN [item[x] EXCEPT !.ns = script.to, !.tag = None]
                                ELSE item[x]]

MutRefused(m) == FALSE

\* The index looks again when the rows are written.
Refused(m) == item[m].life = "live" /\ Collides(m, script.to)

\* The rows read are moved by their ids, whatever became of them.
PromoteApply ==
    /\ script.pc = "move" /\ ~\E m \in script.mems : Refused(m)
    /\ item' = Moved(script.chats \cup script.mems)
    /\ art' = [c \in SegChats |-> IF c \in script.chats THEN script.to ELSE art[c]]
    /\ profile' = [profile EXCEPT ![<<script.ns, script.tag>>] = "retired"]
    /\ script' = Ended
    /\ UNCHANGED <<vars, edits>>

\* An IntegrityError, any other error or an interrupt writes nothing.
ScriptFails ==
    /\ script.pc \notin {"idle", "done"}
    /\ Advance(Ended)

-----------------------------------------------------------------------------

SegRequests ==
    \/ \E c \in SegChats, ns \in Homes : MoveSegChat(c, ns)
    \/ \E m \in SegMems, ns \in Homes, tag \in Slugs \cup {None} : CreateSegMem(m, ns, tag)
    \/ \E x \in SegItems : DeleteSegItem(x)
    \/ \E c \in SegChats, slug \in Slugs : TagSegChat(c, slug)

Scripts ==
    \/ \E ns \in Homes : BackfillChats(ns)
    \/ BackfillMems \/ BackfillPropose \/ BackfillApply
    \/ \E ns, to \in Homes, tag \in Slugs : PromoteStart(ns, tag, to)
    \/ PromoteChats \/ PromoteMems \/ PromoteApply \/ ScriptFails
    \/ \E dry \in BOOLEAN : Preflight(dry)

SegNext ==
    \/ Next /\ UNCHANGED segVars
    \/ SegRequests
    \/ Scripts

SegSpec == SegInit /\ [][SegNext]_<<vars, segVars>> /\ Fairness

-----------------------------------------------------------------------------
(* Properties                                                              *)

(* group_items: no item is in two groups and no two groups have the same   *)
(* name, so that no profile is created twice by one run.                   *)
Disjoint(groups) ==
    \A i, j \in DOMAIN groups :
        i # j => /\ groups[i].slug # groups[j].slug
                 /\ Range(groups[i].members) \cap Range(groups[j].members) = {}

(* What a script has read was there: its rows exist, its memories are one  *)
(* per hash, and the segment that a promotion found is still one unless a  *)
(* request took rows out of it.                                            *)
ScriptKnown(q) ==
    LET held == Segment(q.ns, q.tag, SegItems)
    IN /\ q \in Script /\ Disjoint(q.groups)
       /\ \A x \in q.chats \cup q.fresh \cup q.mems : item[x].life # "absent"
       /\ \A m, n \in q.mems : Hash[m] = Hash[n] => m = n
       /\ q.pc \in {"mems", "propose", "apply", "pchats", "pmems", "preflight", "move"} => q.ns \in Homes
       /\ q.pc \in {"pchats", "pmems", "preflight", "move"} => q.tag \in Slugs /\ q.to \in Homes
       /\ q.pc = "pchats" => q.steady \subseteq held
       /\ q.pc = "pmems" => q.steady \subseteq q.chats \cup (held \cap SegMems)
       /\ q.pc \in {"preflight", "move"} => q.steady \subseteq q.chats \cup q.mems

(* The scripts keep what the server relies on, whatever the requests do    *)
(* between their statements: one active memory per namespace and hash, in  *)
(* spite of a preflight that may be out of date; artifacts that carry the  *)
(* namespace of their chat; and a promotion moves every row that was in    *)
(* the segment all the time.                                               *)
SegmentInv ==
    /\ item \in [SegItems -> Item] /\ art \in [SegChats -> Homes]
    /\ profile \in [Homes \X Slugs -> {"none", "active", "retired"}] /\ edits \in 0..MaxEdits
    /\ \A x \in SegItems : item[x].life = "absent" => item[x].tag = None
    /\ \A m \in SegMems : item[m].life = "live" => ~Collides(m, item[m].ns)
    /\ \A c \in SegChats : art[c] = item[c].ns
    /\ ScriptKnown(script)

MaintenanceInv == UpkeepInv /\ SegmentInv

(* "already-tagged rows are settled": no script puts another tag in place  *)
(* of one that is there, although the backfill has looked for untagged     *)
(* rows long before it stamps them, and tag tasks stamp them meanwhile.    *)
(* (What a tag task itself overwrites is a matter of ChatLifecycle.)       *)
TagsSettled ==
    [][\A x \in SegItems : item[x].tag # None /\ item'[x].tag # None => item'[x].tag = item[x].tag]_item

=============================================================================
