---------------------------- MODULE SystemProxy -----------------------------
(* The proxy setting of the desktop (system_proxy.rs of the platform        *)
(* crates): a health tick and an operation that take it away where it       *)
(* points at a local proxy of BiFlow, beside Hiddify, which sets it again,  *)
(* and the user.  A platform keeps the setting in one or more places, which *)
(* are read, and turned off, by one external command after the other; each  *)
(* of them may fail.  HTTP, HTTPS and SOCKS of a place are one value here.  *)
(* The snapshot is saved and never given back, because no caller restores.  *)
EXTENDS Naturals

CONSTANT ProxyPlaces   \* each platform's places: a function to sets of names

VARIABLES desktop,     \* the platform, and its tools: a name of DOMAIN ProxyPlaces
          setting,     \* each place: "off", the endpoint of a client, or "corporate"
          clearer,     \* the two calls of clear_hiddify_system_proxy
          saved,       \* whose endpoint the snapshot file has: "none", "client" or "mixed"
          everClient   \* history: a setting has pointed at a client
systemProxyVars == <<desktop, setting, clearer, saved, everClient>>

Clearers == {"tick", "operation"}
Endpoints == <<"first", "second">>   \* local_proxy_endpoints
AtClient == {"first", "second"}
Values == AtClient \cup {"off", "corporate"}
(* Linux reads KDE only where there is no GNOME; both are turned off.       *)
Here == ProxyPlaces[desktop]
Readable == IF "gnome" \in Here THEN {"gnome"} ELSE Here
Resting == [step |-> "idle", at |-> 1, view |-> <<>>, left |-> {}, alone |-> FALSE]
PointsAt(view, e) == \E p \in DOMAIN view : view[p] = e
-----------------------------------------------------------------------------
SystemProxyInit ==
    /\ desktop \in DOMAIN ProxyPlaces
    /\ setting \in [Here -> Values]
    /\ clearer = [w \in Clearers |-> Resting] /\ saved = "none"
    /\ everClient = (\E p \in Here : setting[p] \in AtClient)

(* Hiddify publishes its endpoint wherever it likes, and the user anything. *)
Interferes(p, v) ==
    /\ setting[p] # v /\ setting' = [setting EXCEPT ![p] = v]
    /\ clearer' = [w \in Clearers |-> [clearer[w] EXCEPT !.alone = FALSE]]
    /\ everClient' = (everClient \/ v \in AtClient)
    /\ UNCHANGED <<desktop, saved>>

BeginClear(w) ==
    /\ clearer[w].step \in {"idle", "done"}
    /\ clearer' = [clearer EXCEPT ![w] = [Resting EXCEPT !.step = "read", !.left = Readable,
                                                         !.alone = TRUE]]
    /\ UNCHANGED <<desktop, setting, saved, everClient>>
Seen(view, p) == [q \in DOMAIN view \cup {p} |-> IF q = p THEN setting[p] ELSE view[q]]
ReadCurrent(w, p) ==
    /\ clearer[w].step = "read" /\ p \in clearer[w].left
    /\ clearer' = [clearer EXCEPT ![w].view = Seen(@, p), ![w].left = @ \ {p}]
    /\ UNCHANGED <<desktop, setting, saved, everClient>>
(* The next endpoint is looked for in what is read anew. *)
NextEndpoint(w) ==
    IF clearer[w].at = 2
    THEN [Resting EXCEPT !.step = "done", !.alone = clearer[w].alone]
    ELSE [clearer[w] EXCEPT !.step = "read", !.at = 2, !.view = <<>>, !.left = Readable]
(* Mutation of TurnsOff: a place that was on is given its flag back. *)
TurnsOffUnset(w) == {p \in Here : p \in DOMAIN clearer[w].view => clearer[w].view[p] = "off"}
(* What is turned off: every place, whatever it pointed at. *)
TurnsOff(w) == Here
ClearIfHiddify(w) ==
    /\ clearer[w].step = "read" /\ clearer[w].left = {}
    /\ IF PointsAt(clearer[w].view, Endpoints[clearer[w].at])
       THEN /\ clearer' = [clearer EXCEPT ![w].step = "off", ![w].view = <<>>,
                                          ![w].left = TurnsOff(w)]
            /\ saved' = IF PointsAt(clearer[w].view, "corporate") THEN "mixed" ELSE "client"
       ELSE clearer' = [clearer EXCEPT ![w] = NextEndpoint(w)] /\ UNCHANGED saved
    /\ UNCHANGED <<desktop, setting, everClient>>
ApplyDisabled(w, p) ==
    /\ clearer[w].step = "off" /\ p \in clearer[w].left
    /\ setting' = [setting EXCEPT ![p] = "off"] /\ clearer' = [clearer EXCEPT ![w].left = @ \ {p}]
    /\ UNCHANGED <<desktop, saved, everClient>>
Cleared(w) ==
    /\ clearer[w].step = "off" /\ clearer[w].left = {}
    /\ clearer' = [clearer EXCEPT ![w] = NextEndpoint(w)]
    /\ UNCHANGED <<desktop, setting, saved, everClient>>
(* A tool that cannot read or write, or a snapshot that cannot be saved,    *)
(* ends the call; the engine goes on.                                       *)
ClearFails(w) ==
    /\ clearer[w].step \in {"read", "off"} /\ clearer' = [clearer EXCEPT ![w] = Resting]
    /\ UNCHANGED <<desktop, setting, saved, everClient>>

SystemProxyNext ==
    \/ \E p \in Here, v \in Values : Interferes(p, v)
    \/ \E w \in Clearers :
           \/ BeginClear(w) \/ ClearIfHiddify(w) \/ Cleared(w) \/ ClearFails(w)
           \/ \E p \in Here : ReadCurrent(w, p) \/ ApplyDisabled(w, p)
-----------------------------------------------------------------------------
SystemProxyTypeOK ==
    /\ setting \in [Here -> Values]
    /\ saved \in {"none", "client", "mixed"}
    /\ \A w \in Clearers : clearer[w].step \in {"idle", "read", "off", "done"}

(* A clear that has succeeded while nobody else wrote leaves no place it    *)
(* reads at a client, whatever the other clear did meanwhile.               *)
NoPlaceAtClient ==
    \A w \in Clearers : clearer[w].step = "done" /\ clearer[w].alone =>
        \A p \in Readable : setting[p] \notin AtClient

(* Where no setting has pointed at a client, none is saved or turned off.   *)
OthersUntouched ==
    ~everClient => saved = "none" /\ \A w \in Clearers : clearer[w].step # "off"

(* The removal of the desktop's proxy beside the programs that set it       *)
(* (iran-split-core/src/lib.rs:816, :1799).                                 *)
SystemProxyInvariant == SystemProxyTypeOK /\ NoPlaceAtClient /\ OthersUntouched
=============================================================================
