------------------------------ MODULE Settings ------------------------------
(* The settings document (ConfigStore of iran-split-config), the window that *)
(* edits a redacted copy of it, and the command that puts the secrets back, *)
(* saves the draft and hands it to the backend.  The window may send a save *)
(* before the last one has returned.                                        *)
(*                                                                          *)
(* A client has a secret (a password, or the path of a profile), a port and *)
(* a switch; the window only ever sees the mark that stands for a secret.   *)
EXTENDS Naturals, FiniteSets

CONSTANTS
    ClientIds,     \* clients of the catalog
    Saves,         \* saves that may be under way at once
    Ports,         \* loopback ports: 1 is the application's own, 2 that of a development run
    MaxSaved       \* bound: revisions of the document

ASSUME SettingsAssumption ==
    {1, 2} \subseteq Ports /\ Ports \subseteq Nat /\ MaxSaved \in Nat /\ ClientIds # {}

NoClient == "direct"
Echo == "[REDACTED]"
Secrets == {"none", "own", Echo}
ClientRecords == [secret : Secrets, enabled : BOOLEAN, port : Ports]
ClientMaps == UNION {[ids -> ClientRecords] : ids \in SUBSET ClientIds}
Documents == [revision : 0..(MaxSaved + 1), clients : ClientMaps,
              default : ClientIds \union {NoClient}, mixed : Ports]
SaveRecords == [at : {"idle", "read", "write", "update", "return", "pins"},
                purpose : {"edit", "removal", "revert"},
                draft : Documents, expects : 0..MaxSaved, before : ClientMaps]

VARIABLES
    profile,       \* "production" or "development"
    file,          \* the document in the file
    backendHas,    \* the document the backend works with
    window,        \* the redacted document that the window edits
    previous,      \* the document that Revert would write back, or none of it
    save,          \* each save: its place and purpose, its draft, the revision it
                   \* expects, and, for a removal, the clients of before
    departed       \* history: a draft put back a client that the document had lost, or
                   \* a save overwrote one that it had not read

settingsVars == <<profile, file, backendHas, window, previous, save, departed>>

SaveAt(s, place) == save[s].at = place
NewClient(secret, port) == [secret |-> secret, enabled |-> TRUE, port |-> port]
NoClients == [i \in {} |-> NewClient("none", 1)]
NoSettings == [revision |-> 0, clients |-> NoClients, default |-> NoClient, mixed |-> 1]
NoSave == [at |-> "idle", purpose |-> "edit", draft |-> NoSettings, expects |-> 0, before |-> NoClients]

SettingsTypeOK ==
    /\ profile \in {"production", "development"} /\ departed \in BOOLEAN
    /\ file \in Documents /\ backendHas \in Documents
    /\ window \in Documents /\ previous \in Documents
    /\ save \in [Saves -> SaveRecords]

-----------------------------------------------------------------------------
(* The document.                                                           *)

PortsOf(c) == [i \in DOMAIN c.clients |-> c.clients[i].port]

\* No port is used twice, and the default is a client of the document.
ValidSettings(c) ==
    /\ c.default \in DOMAIN c.clients \union {NoClient}
    /\ \A i, j \in DOMAIN c.clients : PortsOf(c)[i] = PortsOf(c)[j] => i = j
    /\ \A i \in DOMAIN c.clients : PortsOf(c)[i] # c.mixed

\* A development run leaves the ports of the installed application alone.
Isolated(c) == IF profile = "development" /\ c.mixed = 1 THEN [c EXCEPT !.mixed = 2] ELSE c

\* A document loads when it is valid after the ports were moved.
Loads(c) == ValidSettings(Isolated(c))

SanitizeDefaultRoute(c) ==
    IF c.default # NoClient /\ \E i \in DOMAIN c.clients : i = c.default /\ c.clients[i].enabled
    THEN c ELSE [c EXCEPT !.default = NoClient]

Marked(clients) == [i \in DOMAIN clients |-> [clients[i] EXCEPT !.secret = Echo]]
Redacted(c) == [c EXCEPT !.clients = Marked(@)]

\* Mutation of RestoreRedacted: the draft is stored as the window sent it.
DraftAsSent(current, draft) == draft

\* A mark stands for the stored secret of the same client.
Unmarked(stored, clients) ==
    [i \in DOMAIN clients |->
        IF i \in DOMAIN stored /\ clients[i].secret = Echo
        THEN [clients[i] EXCEPT !.secret = stored[i].secret] ELSE clients[i]]
RestoreRedacted(current, draft) == [draft EXCEPT !.clients = Unmarked(current.clients, @)]

\* migrate: the clients of the old schema become instances, the first of them
\* the default; a document without any gets the first of the catalog.
Migrated(clients, first) ==
    [revision |-> 0, clients |-> clients, mixed |-> 1, default |-> first]

\* A new installation, or a document of an older schema with its clients.
SettingsInit ==
    /\ profile \in {"production", "development"}
    /\ \E ids \in SUBSET ClientIds : \E port \in [ids -> Ports] : \E first \in ids :
        file = Migrated([i \in ids |-> NewClient("own", port[i])], first)
    /\ Loads(file)
    /\ backendHas = Isolated(file)
    /\ window = Redacted(Isolated(file)) /\ previous = NoSettings
    /\ save = [s \in Saves |-> NoSave] /\ departed = FALSE

-----------------------------------------------------------------------------
(* The window.                                                             *)

Sends(s, purpose, draft) ==
    /\ file.revision < MaxSaved /\ window.revision < MaxSaved
    /\ save' = [save EXCEPT ![s] =
          [at |-> "read", purpose |-> purpose, draft |-> draft, expects |-> window.revision,
           before |-> IF purpose = "removal" THEN window.clients ELSE NoClients]]
    /\ UNCHANGED <<profile, file, backendHas, window, previous>>

WithClients(clients) == [window EXCEPT !.clients = clients]
WithoutClient(clients, id) == [i \in DOMAIN clients \ {id} |-> clients[i]]
WithClient(clients, id, client) ==
    [i \in DOMAIN clients \union {id} |-> IF i = id THEN client ELSE clients[i]]

Drafts ==
    {WithClients(WithClient(window.clients, id, NewClient("none", port))) :
        id \in ClientIds \ DOMAIN window.clients, port \in Ports}
    \union {WithClients([window.clients EXCEPT ![id].secret = "own"]) : id \in DOMAIN window.clients}
    \union {WithClients([window.clients EXCEPT ![id].enabled = ~@]) : id \in DOMAIN window.clients}
    \union {[window EXCEPT !.default = id] : id \in DOMAIN window.clients \union {NoClient}}
    \union {[window EXCEPT !.mixed = port] : port \in Ports}

\* addClient, updateClient, setClientEnabled, setDefaultRoute and the ports.
EditSettings(s) ==
    SaveAt(s, "idle") /\ UNCHANGED departed /\ \E draft \in Drafts : Sends(s, "edit", draft)

DeleteClient(s) ==
    /\ SaveAt(s, "idle") /\ UNCHANGED departed
    /\ \E id \in DOMAIN window.clients :
        Sends(s, "removal", WithClients(WithoutClient(window.clients, id)))

\* The batch of edits since the banner appeared is taken back.
RevertPendingSettings(s) ==
    /\ SaveAt(s, "idle") /\ previous # NoSettings /\ Sends(s, "revert", previous)
    /\ departed' = (departed \/ ~(DOMAIN previous.clients \subseteq DOMAIN file.clients))

DismissNotice ==
    /\ previous # NoSettings /\ previous' = NoSettings
    /\ UNCHANGED <<profile, file, backendHas, window, save, departed>>

-----------------------------------------------------------------------------
(* save_settings.                                                          *)

SaveGoes(s, place) ==
    save' = [save EXCEPT ![s] = IF place = "idle" THEN NoSave ELSE [@ EXCEPT !.at = place]]
SaveRefused(s) == SaveGoes(s, "idle") /\ UNCHANGED <<profile, file, backendHas, window, previous, departed>>

\* The stored document is read for its secrets, and once more by
\* ConfigStore::save: nobody may have changed it since the window read it, and
\* the draft must be valid.  A write between the two reads is a new revision,
\* so that they are one step.  What load moved it writes.
SaveChecks(s) ==
    /\ SaveAt(s, "read") /\ Loads(file) /\ file' = Isolated(file)
    /\ LET draft == SanitizeDefaultRoute(RestoreRedacted(file', save[s].draft))
       IN IF file.revision = save[s].expects /\ ValidSettings(draft)
          THEN save' = [save EXCEPT ![s].at = "write", ![s].draft = draft]
          ELSE SaveGoes(s, "idle")
    /\ UNCHANGED <<profile, backendHas, window, previous, departed>>

SaveFails(s) ==
    /\ \/ SaveAt(s, "read") /\ ~Loads(file)
       \/ SaveAt(s, "write")
    /\ SaveRefused(s)

\* One rename: the file is the old or the new document.
SaveWrites(s) ==
    /\ SaveAt(s, "write")
    /\ file' = [save[s].draft EXCEPT !.revision = save[s].expects + 1]
    /\ departed' = (departed \/ file.revision # save[s].expects)
    /\ SaveGoes(s, "update") /\ UNCHANGED <<profile, backendHas, window, previous>>

Saved(s) == [save[s].draft EXCEPT !.revision = save[s].expects + 1]

UpdateConfig(s) ==
    /\ SaveAt(s, "update") /\ backendHas' = Saved(s)
    /\ SaveGoes(s, "return") /\ UNCHANGED <<profile, file, window, previous, departed>>

\* The window shows what was saved.  The banner keeps the first document of
\* the batch, when the live stack is affected; a revert takes it away.
SaveReturns(s) ==
    /\ SaveAt(s, "return")
    /\ window' = Redacted(Saved(s))
    /\ previous' \in IF save[s].purpose = "revert" THEN {NoSettings}
                     ELSE {previous, IF previous = NoSettings THEN window ELSE previous}
    /\ SaveGoes(s, IF save[s].purpose = "removal" THEN "pins" ELSE "idle")
    /\ UNCHANGED <<profile, file, backendHas, departed>>

\* deleteClient goes on with the pins of the client; when that fails, it sends
\* the clients of before the removal at the revision of now (ADR 0096).
PinsFollow(s) == SaveAt(s, "pins") /\ SaveRefused(s)
RestoreClient(s) ==
    /\ SaveAt(s, "pins") /\ departed' = TRUE
    /\ Sends(s, "edit", WithClients(save[s].before))

\* The process ends and starts again; what it loads is moved off the ports of
\* the installed application and written back.
SettingsRestart ==
    /\ Loads(file)
    /\ file' = Isolated(file) /\ backendHas' = Isolated(file)
    /\ window' = Redacted(Isolated(file)) /\ previous' = NoSettings
    /\ save' = [s \in Saves |-> NoSave] /\ UNCHANGED <<profile, departed>>

SaveStep(s) ==
    \/ EditSettings(s) \/ DeleteClient(s) \/ RevertPendingSettings(s)
    \/ SaveChecks(s) \/ SaveFails(s) \/ SaveWrites(s)
    \/ UpdateConfig(s) \/ SaveReturns(s) \/ PinsFollow(s) \/ RestoreClient(s)

SettingsNext == SettingsRestart \/ DismissNotice \/ \E s \in Saves : SaveStep(s)
SettingsSpec == SettingsInit /\ [][SettingsNext]_settingsVars

-----------------------------------------------------------------------------
\* No save stores the mark in place of a secret, unless the window put back a
\* client that the document had lost, or two saves passed one revision.
SecretsKept == departed \/ \A i \in DOMAIN file.clients : file.clients[i].secret # Echo

\* The document of an installed application always loads: a save leaves no port
\* conflict, and no default that is gone or switched off.
StoredSettingsLoad == profile = "production" => Loads(file)
DefaultIsEnabled == file.default # NoClient => file.clients[file.default].enabled

\* Between saves the backend works with the stored document, whatever was
\* refused, failed or sent while another save was under way.
BackendHasStored ==
    ~departed /\ (\A s \in Saves : SaveAt(s, "idle")) => Isolated(backendHas) = Isolated(file)

\* What saves, reverts, removals and restarts keep of the document.
SettingsInvariant ==
    /\ SettingsTypeOK /\ SecretsKept
    /\ StoredSettingsLoad /\ DefaultIsEnabled /\ BackendHasStored

\* ADR 0096: a client whose removal could not be completed is restored.
RestoredClientKeepsSecret == \A i \in DOMAIN file.clients : file.clients[i].secret # Echo
=============================================================================
