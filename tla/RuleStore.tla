----------------------------- MODULE RuleStore -----------------------------
(* The document of route pins (RuleManager of iran-split-rules) under the   *)
(* desktop commands that change it, persist it, apply it to the live stack  *)
(* and put the previous one back when that fails (persist_and_apply_rules). *)
(* Commands run concurrently: between their awaits anything may happen, and *)
(* so may the end of the process.                                           *)
(*                                                                          *)
(* A pin is a host, an outbound and the list it is shown in.  Addresses and *)
(* policies are Routing's; executable routes are edited like pins.          *)
EXTENDS Naturals, FiniteSets, FiniteSetsExt

CONSTANTS
    Hosts,        \* canonical names
    Search,       \* the host that brings companions: google.com
    PinClients,   \* clients that a host may be pinned to
    Callers,      \* concurrent commands
    MaxRevision,  \* bound: revisions of the document
    MaxLists      \* bound: lists that commands create

ASSUME RuleAssumption ==
    /\ Search \in Hosts /\ "direct" \notin PinClients /\ IsFiniteSet(PinClients)
    /\ {MaxRevision, MaxLists} \subseteq Nat

Outbounds == PinClients \union {"direct"}
NoList == 0

VARIABLES
    document,  \* in memory and, since it is published first, in the file
    caller,    \* each command: its place, the document it keeps (the previous
               \* one, or the copy it is about to write), and whether no other
               \* command has changed the document since it was read
    created,   \* the number of the last list of all documents of this process:
               \* they are numbered in the order of their creation
    forked     \* history: a document was replaced by one that may not be made from it

ruleVars == <<document, caller, created, forked>>

Lists == 1..created
Pin(host, to, list) == [host |-> host, to |-> to, list |-> list]
Pins == {Pin(h, o, l) : h \in Hosts, o \in Outbounds, l \in Lists \union {NoList}}

IsDocument(d) ==
    /\ DOMAIN d = {"revision", "pins", "lists"}
    /\ d.revision \in 0..(MaxRevision + 1) /\ d.pins \subseteq Pins
    /\ DOMAIN d.lists \subseteq Lists /\ d.lists \in [DOMAIN d.lists -> Outbounds]

At(c, place) == caller[c].at = place
Empty == [revision |-> 0, pins |-> {}, lists |-> <<>>]
Idle == [at |-> "idle", keeps |-> Empty, alone |-> TRUE]

RuleTypeOK ==
    /\ created \in Nat /\ IsDocument(document) /\ forked \in BOOLEAN /\ DOMAIN caller = Callers
    /\ \A c \in Callers :
        /\ DOMAIN caller[c] = {"at", "keeps", "alone"} /\ IsDocument(caller[c].keeps)
        /\ caller[c].at \in {"idle", "edit", "write", "apply", "restore"}
        /\ caller[c].alone \in BOOLEAN
        /\ At(c, "apply") /\ caller[c].alone /\ document # caller[c].keeps =>
              document.revision = caller[c].keeps.revision + 1

-----------------------------------------------------------------------------
(* Edits of a document.                                                    *)

Bump(d) == [d EXCEPT !.revision = @ + 1]
PinOf(d, host) == {p \in d.pins : p.host = host}
ListsOf(d, to) == {l \in DOMAIN d.lists : d.lists[l] = to}

\* The number of the last list, with that of an edit that is under way.
LastList(d) == Max(DOMAIN d.lists \union {created})
HasRoom == created < MaxLists

WithList(d, to) ==
    LET new == LastList(d) + 1
    IN [d EXCEPT !.lists = [l \in DOMAIN @ \union {new} |-> IF l = new THEN to ELSE @[l]]]

WithDefaultList(d, to) == IF ListsOf(d, to) = {} THEN WithList(d, to) ELSE d
DefaultList(d, to) == Min(ListsOf(d, to))

\* A pin of the search host brings those of its companions that are unpinned.
Companions(d, host, to, list) ==
    IF host # Search \/ to = "direct" THEN {}
    ELSE {Pin(h, to, list) : h \in {k \in Hosts \ {Search} : PinOf(d, k) = {}}}

PinInto(d, host, to, list) ==
    LET pins == (d.pins \ PinOf(d, host)) \union {Pin(host, to, list)}
                \union Companions(d, host, to, list)
    IN IF pins = d.pins THEN d ELSE Bump([d EXCEPT !.pins = pins])

PinRoute(d, host, to) ==
    LET listed == WithDefaultList(d, to) IN PinInto(listed, host, to, DefaultList(listed, to))

Unpin(d, host) == IF PinOf(d, host) = {} THEN d ELSE Bump([d EXCEPT !.pins = @ \ PinOf(d, host)])

Without(f, ids) == [l \in DOMAIN f \ ids |-> f[l]]
DeleteList(d, list) ==
    Bump([d EXCEPT !.lists = Without(@, {list}), !.pins = {p \in @ : p.list # list}])

SetListOutbound(d, list, to) ==
    Bump([d EXCEPT !.lists[list] = to,
                   !.pins = {IF p.list = list THEN [p EXCEPT !.to = to] ELSE p : p \in @}])

\* Outbounds that have pins and no list get one each, after the last.
WithMissingLists(d, last) ==
    LET missing == {p.to : p \in {q \in d.pins : ListsOf(d, q.to) = {}}}
        order == CHOOSE f \in Bijection(1..Cardinality(missing), missing) : TRUE
    IN [d EXCEPT !.lists = [l \in DOMAIN @ \union {last + n : n \in DOMAIN order} |->
                              IF l \in DOMAIN @ THEN @[l] ELSE order[l - last]]]

\* Every pin is in a list of its outbound.
EnsureListMembership(d, last) ==
    LET listed == WithMissingLists(d, last)
        Valid(p) == p.list \in DOMAIN listed.lists /\ listed.lists[p.list] = p.to
    IN [listed EXCEPT !.pins =
          {IF Valid(p) THEN p ELSE [p EXCEPT !.list = DefaultList(listed, p.to)] : p \in @}]

DeleteClientPins(d, client) ==
    LET rest == [d EXCEPT !.pins = {p \in @ : p.to # client},
                          !.lists = Without(@, ListsOf(d, client))]
    IN IF rest.pins = d.pins THEN d ELSE Bump(rest)

MoveClientPins(d, client, to) ==
    LET moved == EnsureListMembership(
            [d EXCEPT !.pins = {IF p.to = client THEN [p EXCEPT !.to = to] ELSE p : p \in @},
                      !.lists = [l \in DOMAIN @ |-> IF @[l] = client THEN to ELSE @[l]]], LastList(d))
    IN IF \E p \in d.pins : p.to = client THEN Bump(moved) ELSE d

FillSearchCompanions(d) ==
    LET search == {p \in PinOf(d, Search) : p.to # "direct"}
    IN IF search = {} THEN d
       ELSE LET p == CHOOSE p \in search : TRUE
            IN [d EXCEPT !.pins = @ \union Companions(d, Search, p.to, p.list)]

CanonicalizeDocument(d, last) ==
    LET canonical == FillSearchCompanions(EnsureListMembership(d, last))
    IN IF canonical = d THEN d ELSE Bump(canonical)

PinsMatchTheirList(d) ==
    \A p \in d.pins : p.list \in DOMAIN d.lists /\ d.lists[p.list] = p.to

-----------------------------------------------------------------------------

\* The file of an earlier build: pins without lists.
LegacyPins == {pins \in SUBSET {Pin(h, o, NoList) : h \in Hosts, o \in Outbounds} :
                 \A p, q \in pins : p.host = q.host => p = q}

RuleInit ==
    /\ document \in {CanonicalizeDocument([Empty EXCEPT !.pins = pins], 0) : pins \in LegacyPins}
    /\ created = Max(DOMAIN document.lists \union {0})
    /\ caller = [c \in Callers |-> Idle] /\ forked = FALSE

CallGoes(c, place) == caller' = [caller EXCEPT ![c].at = place]
CallEnds(c) == caller' = [caller EXCEPT ![c] = Idle]
InBounds(d) == d.revision <= MaxRevision

\* publish_and_replace, by one of the callers; it may fail, see Refuse.
Publish(next, c, state) ==
    /\ document' = next /\ created' = LastList(next)
    /\ caller' = [o \in Callers |->
          IF o = c THEN state
          ELSE [caller[o] EXCEPT !.alone = @ /\ (next = document \/ caller[o].at = "idle")]]

\* A command reads the previous document.  One that the window sends with an
\* outdated revision is refused.
Invoke(c) ==
    /\ At(c, "idle") /\ InBounds(document)
    /\ caller' = [caller EXCEPT ![c] = [at |-> "edit", keeps |-> document, alone |-> TRUE]]
    /\ UNCHANGED <<document, created, forked>>

\* The edits that are applied to the live stack.
Edits(d) ==
    {PinRoute(d, h, to) : h \in Hosts, to \in {o \in Outbounds : ListsOf(d, o) # {} \/ HasRoom}}
    \union {Unpin(d, h) : h \in Hosts}
    \union {DeleteList(d, l) : l \in DOMAIN d.lists}
    \union {SetListOutbound(d, l, to) : l \in DOMAIN d.lists, to \in Outbounds}

Current(c) == document.revision = caller[c].keeps.revision /\ InBounds(document)
Edited(c, next) ==
    Publish(next, c, [caller[c] EXCEPT !.at = "apply"]) /\ UNCHANGED forked

Edit(c) ==
    /\ At(c, "edit") /\ Current(c)
    /\ \E next \in Edits(document) : Edited(c, next)

\* Mutation of PinToList: the pin that the host had stays.
PinToListKeepsOther(c) ==
    /\ At(c, "edit") /\ Current(c)
    /\ \E h \in Hosts, l \in DOMAIN caller[c].keeps.lists :
        Edited(c, Bump([document EXCEPT !.pins = @ \union {Pin(h, caller[c].keeps.lists[l], l)}]))

\* pin_to_list reads the outbound of its list and lets the lock go.
PinToList(c) ==
    /\ At(c, "edit") /\ Current(c)
    /\ \E h \in Hosts, l \in DOMAIN caller[c].keeps.lists :
        Edited(c, PinInto(document, h, caller[c].keeps.lists[l], l))

\* create_list and rename_list are not applied and need no place of their own.
EditLists(c) ==
    /\ At(c, "idle") /\ InBounds(document) /\ UNCHANGED forked
    /\ \/ Publish(Bump(document), c, Idle)
       \/ HasRoom /\ \E to \in Outbounds : Publish(Bump(WithList(document, to)), c, Idle)

\* RevisionConflict, an invalid input, or a publication that failed.
Refuse(c) == At(c, "edit") /\ CallEnds(c) /\ UNCHANGED <<document, created, forked>>

Applied(c) == At(c, "apply") /\ CallEnds(c) /\ UNCHANGED <<document, created, forked>>

ApplyFailed(c) == At(c, "apply") /\ CallGoes(c, "restore") /\ UNCHANGED <<document, created, forked>>

\* Whoever changed the document in between, the previous one is put back.
Restore(c) ==
    /\ At(c, "restore") /\ Publish(caller[c].keeps, c, Idle) /\ forked' = TRUE

\* discard_client_pins and reassign_client_pins edit a copy outside the lock.
CopyDocument(c) ==
    /\ At(c, "idle") /\ InBounds(document) /\ HasRoom
    /\ \E client \in PinClients :
        \E next \in {DeleteClientPins(document, client), MoveClientPins(document, client, "direct")} :
            /\ next # document /\ created' = LastList(next)
            /\ caller' = [caller EXCEPT ![c] = [at |-> "write", keeps |-> next, alone |-> TRUE]]
    /\ UNCHANGED <<document, forked>>

WriteCopy(c) ==
    /\ At(c, "write") /\ Publish(caller[c].keeps, c, Idle)
    /\ forked' = (forked \/ ~caller[c].alone)

\* refresh resolves outside the lock and merges into the current document.
Refresh(c) ==
    /\ At(c, "idle") /\ InBounds(document) /\ Publish(Bump(document), c, Idle) /\ UNCHANGED forked

\* The process ends; RuleManager::load in the next one.
Restart ==
    /\ InBounds(document) /\ document' = CanonicalizeDocument(document, LastList(document))
    /\ created' = Max(DOMAIN document'.lists \union {0})
    /\ caller' = [c \in Callers |-> Idle] /\ forked' = FALSE

RuleNext ==
    \/ Restart
    \/ \E c \in Callers :
        \/ Invoke(c) \/ Edit(c) \/ PinToList(c) \/ EditLists(c) \/ Refuse(c) \/ Applied(c)
        \/ ApplyFailed(c) \/ Restore(c) \/ CopyDocument(c) \/ WriteCopy(c) \/ Refresh(c)

RuleSpec == RuleInit /\ [][RuleNext]_ruleVars

-----------------------------------------------------------------------------

\* A host is pinned to one outbound only, through every edit, rollback, copy,
\* restart and migration.
OnePinPerHost == \A p, q \in document.pins : p.host = q.host => p = q

\* As long as no command has overwritten a document that it was not made from,
\* every pin is in a list of its own outbound; a restart repairs the others.
ListsAgree == forked \/ PinsMatchTheirList(document)

\* What every edit, rollback and restart keeps of the document.
DocumentInvariant == RuleTypeOK /\ OnePinPerHost /\ ListsAgree

\* A rollback takes back what its own command did and nothing else.
RollsBackOnlyItself == \A c \in Callers : At(c, "restore") => caller[c].alone
=============================================================================
