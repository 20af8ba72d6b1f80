------------------------------ MODULE Console ------------------------------
(***************************************************************************)
(* The screens of the TUI: App (tui_core.rs) and the ProductionApp around  *)
(* it (tui.rs), which attaches saving, the server thread and the client    *)
(* actor to the keys.                                                      *)
(*                                                                         *)
(* A list (hosts, clients, headers) is its length, with the cursor and the *)
(* row an editor was opened for; the settings are whether the text in the  *)
(* field being edited is valid.  Keys that only move a cursor between      *)
(* fields, and keys with modifiers other than Ctrl+S, are left out.  What  *)
(* saves write is in Credentials, what a wake does in WakeTui.             *)
(***************************************************************************)
EXTENDS Integers, FiniteSets

CONSTANTS
    MaxRows,    \* bound on the rows of every list (MAX_HOSTS, MAX_CLIENTS, ...)
    MaxSaves,   \* bound on saves of the server configuration
    MaxConnects,\* bound on connections of the client
    MaxEvents   \* bound on catalog events of the client

ConsoleAssumption == MaxRows \in Nat

Lists == {"hosts", "clients", "headers"}
Top == {"ServerHome", "ServerSettings", "Credentials", "ServerRunning", "SaveExit"}
Screens == Top \cup {"Landing", "HostEditor", "HeaderEditor", "CredentialIssue",
                     "ClientConnect", "CredentialRepair", "ClientHosts", "Wake"}
Modals == {"none", "Help", "DeleteHost", "DeleteHeader", "RevokeCredential",
           "StopServer", "Exit"}
SaveAnswers == {"ok", "uncertain", "failed"}
Digits == 1 .. 5
PageOf == [d \in Digits |->
    CASE d = 1 -> "ServerHome" [] d = 2 -> "ServerSettings" [] d = 3 -> "Credentials"
      [] d = 4 -> "ServerRunning" [] d = 5 -> "SaveExit"]

VARIABLES
    screen, modal, quit,
    rows,       \* list -> length of the list on the screen
    cursor,     \* list -> host_index, credential_index, header_index
    own,        \* the host list on the screen is the configuration's
    dirty,      \* the view differs from the configuration in memory
    editing,    \* settings_editing
    draft,      \* "ok" or "bad": the text of the setting being edited
    edit,       \* the row the open editor is for; -1 for a new one
    config,     \* list -> length, in the configuration in memory
    role,       \* [mem, disk]: "none", "client" or "server" settings
    client,     \* the client actor is held
    wake,       \* "none", "running" or "finished"
    pick,       \* client_host_index
    repair,     \* length of repair_candidates; their cursor is the clients'
    server,     \* [thread, phase, fatal]: the server thread as the TUI sees it
    panicked,   \* a key handler indexed past the end of a list
    used        \* [saves, connects, events]

data == <<rows, cursor, own, dirty, config, role, panicked>>
setup == <<editing, draft, edit>>
peers == <<client, wake, pick, repair>>
screenVars == <<screen, modal, quit, data, setup, peers, server, used>>

ScreenInit ==
    /\ screen = "Landing" /\ modal = "none" /\ quit = FALSE
    /\ role \in {[mem |-> r, disk |-> r] : r \in {"none", "client", "server"}}
    /\ config \in [Lists -> 0 .. MaxRows]
    /\ role.mem # "server" => \A l \in Lists : config[l] = 0
    /\ config["hosts"] = 0 => config["clients"] = 0
    /\ rows = config /\ cursor = [l \in Lists |-> 0] /\ own = TRUE /\ dirty = FALSE
    /\ editing = FALSE /\ draft = "ok" /\ edit = -1
    /\ client = FALSE /\ wake = "none" /\ pick = 0 /\ repair = 0
    /\ server = [thread |-> "none", phase |-> "Stopped", fatal |-> FALSE]
    /\ panicked = FALSE
    /\ used = [saves |-> 0, connects |-> 0, events |-> 0]

Lower(a, b) == IF a < b THEN a ELSE b
LastRow(n) == IF n = 0 THEN 0 ELSE n - 1       \* len().saturating_sub(1)

-----------------------------------------------------------------------------
(* Saving *)

Clamped(at, n) == Lower(at, LastRow(n))

\* load_view_from_config
LoadView(at) ==
    /\ rows' = config'
    /\ cursor' = [l \in Lists |-> Clamped(at[l], config'[l])]
    /\ own' = TRUE /\ dirty' = FALSE

\* sync_server_from_view: a file of the client's is not turned into a server's.
Refuses == role.mem = "client" \/ draft' = "bad"

\* save_server_candidate: v is written and adopted.
Commit(v, a) ==
    /\ used.saves < MaxSaves
    /\ used' = [used EXCEPT !.saves = @ + 1]
    /\ config' = IF a = "failed" THEN config ELSE v
    /\ role' = IF a = "failed" THEN role ELSE [mem |-> "server", disk |-> "server"]

\* persist_server_with_notice of the lists v with cursors at.
PersistServer(v, at, a) ==
    /\ Refuses => a = "failed"
    /\ Commit(v, a)
    /\ LoadView(at)
    /\ UNCHANGED panicked
PersistAny(v, at) == \E a \in SaveAnswers : PersistServer(v, at, a)

Panic ==
    /\ panicked' = TRUE
    /\ UNCHANGED <<rows, cursor, own, dirty, config, role, used>>
KeepData == UNCHANGED <<data, used>>
Still == UNCHANGED <<quit, peers, server>>

-----------------------------------------------------------------------------
(* The server thread *)

\* refresh_server_state, in a tick or when starting.
Refreshed(s) ==
    CASE s.thread = "ended" -> [s EXCEPT !.thread = "none",
                                         !.phase = IF @ = "Stopped" THEN @ ELSE "Failed"]
      [] s.thread = "listening" -> [s EXCEPT !.phase = "Running"]
      [] OTHER -> s

\* tick: drain_runtime_logs, then refresh_server_state.
Ticked(s) ==
    Refreshed(IF s.fatal THEN [s EXCEPT !.phase = "Failed", !.fatal = FALSE] ELSE s)

Tick ==
    /\ server' = Ticked(server)
    /\ UNCHANGED <<screen, modal, quit, data, setup, peers, used>>

\* start_server goes on to spawn only when no thread is held.
Spawns(s) == s.thread = "none"

\* start_server: the page changes only when the configuration could be saved.
StartServer ==
    LET s == Refreshed(server) IN
    \E a \in SaveAnswers, spawned \in BOOLEAN :
       /\ UNCHANGED setup
       /\ PersistServer(rows, cursor, a)
       /\ IF a # "ok" \/ (Spawns(s) /\ ~spawned) THEN server' = s /\ UNCHANGED screen
          ELSE /\ screen' = "ServerRunning"
               /\ server' = IF ~Spawns(s) THEN s ELSE
                     [s EXCEPT !.thread = IF @ = "none" THEN "starting" ELSE "two",
                               !.phase = "Starting"]
       /\ UNCHANGED <<modal, quit, peers>>

\* The thread itself (server.rs): it listens, reports, and ends.
ThreadListens ==
    /\ server.thread = "starting"
    /\ server' = [server EXCEPT !.thread = "listening"]
    /\ UNCHANGED <<screen, modal, quit, data, setup, peers, used>>

ThreadReports ==
    /\ server.thread \in {"starting", "listening"} /\ ~server.fatal
    /\ server' = [server EXCEPT !.fatal = TRUE]
    /\ UNCHANGED <<screen, modal, quit, data, setup, peers, used>>

ThreadEnds ==
    /\ server.thread \in {"starting", "listening"}
    /\ \E fatal \in BOOLEAN :
          server' = [server EXCEPT !.thread = "ended", !.fatal = @ \/ fatal]
    /\ UNCHANGED <<screen, modal, quit, data, setup, peers, used>>

\* stop_server: the thread is joined before anything is shown.
StopServer ==
    IF server.thread = "none" THEN UNCHANGED <<screen, server>>
    ELSE /\ \E p \in {"Stopped", "Failed"} :
               server' = [server EXCEPT !.thread = "none", !.phase = p]
         /\ screen' = "ServerHome"

-----------------------------------------------------------------------------
(* Modal windows *)

ListOf == [m \in {"DeleteHost", "DeleteHeader", "RevokeCredential"} |->
    CASE m = "DeleteHost" -> "hosts" [] m = "DeleteHeader" -> "headers"
      [] m = "RevokeCredential" -> "clients"]

\* Removing the row under the cursor; Vec::remove panics past the end.
OutOfRange(l) == rows[l] > 0 /\ cursor[l] >= rows[l]
AfterRemove(l) == [rows EXCEPT ![l] = IF @ = 0 THEN 0 ELSE @ - 1]

\* persist_after_ui_change: which windows save when they close; a deleted header
\* is saved when its page is left.
SavedOnClose(m) == m \in {"DeleteHost", "RevokeCredential"}

CloseDelete(m, yes) ==
    LET l == ListOf[m]
        v == IF yes THEN AfterRemove(l) ELSE rows IN
    /\ modal = m /\ modal' = "none"
    /\ UNCHANGED setup
    /\ IF yes /\ OutOfRange(l)
       THEN Panic
       ELSE IF SavedOnClose(m) THEN PersistAny(v, cursor)
       ELSE /\ rows' = v
            /\ cursor' = [cursor EXCEPT ![l] = Clamped(@, v[l])]
            /\ dirty' = (dirty \/ v # rows)
            /\ UNCHANGED <<own, config, role, panicked, used>>
    /\ UNCHANGED screen /\ Still

CloseOther(yes) ==
    /\ modal \in {"Help", "StopServer", "Exit"} /\ modal' = "none"
    /\ quit' = (yes /\ modal = "Exit")
    /\ IF yes /\ modal = "StopServer" THEN StopServer ELSE UNCHANGED <<screen, server>>
    /\ UNCHANGED <<setup, peers>> /\ KeepData

Modal == \E yes \in BOOLEAN :
    CloseOther(yes) \/ \E m \in DOMAIN ListOf : CloseDelete(m, yes)

\* F1
Help ==
    /\ modal = "none" /\ modal' = "Help"
    /\ UNCHANGED <<screen, setup>> /\ Still /\ KeepData

-----------------------------------------------------------------------------
(* Server pages *)

\* A key on screen s with no window open.
Key(s) == screen = s /\ modal = "none" /\ ~panicked

\* A key that only changes the page.
Go(from, to) ==
    /\ Key(from) /\ screen' = to
    /\ UNCHANGED <<modal, setup>> /\ Still /\ KeepData

Ask(from, m) ==
    /\ Key(from) /\ modal' = m
    /\ UNCHANGED <<screen, setup>> /\ Still /\ KeepData

Move(from, l) ==
    /\ Key(from)
    /\ \E at \in {cursor[l] - 1, cursor[l] + 1} :
          /\ at >= 0
          /\ cursor' = [cursor EXCEPT ![l] = Clamped(at, rows[l])]
    /\ UNCHANGED <<screen, modal, setup, rows, own, dirty, config, role, panicked, used>>
    /\ Still

SaveNow(from, to) ==
    /\ Key(from) /\ screen' = to
    /\ UNCHANGED <<modal, setup>> /\ Still
    /\ PersistAny(rows, cursor)

\* navigate_server_page; a setting in editing keeps the digits for its text.
Navigable(s) == s \in Top \ {"ServerHome"} /\ ~editing

\* Mutant: leaving the settings by a digit does not save.
SavedOnLeave_Deployment(from, to) == to = "SaveExit"

\* handle_real_action: entering the deployment page saves, and leaving settings.
SavedOnLeave(from, to) == to = "SaveExit" \/ from = "ServerSettings"

\* The keys of ServerHome and Credentials that do the same without the digits.
Shortcut(d) ==
    \/ screen = "ServerHome"
    \/ screen = "Credentials" /\ d \in {1, 4}

Digit(d) ==
    LET to == PageOf[d]
        acts == Navigable(screen) \/ Shortcut(d) IN
    /\ screen \in Top /\ Key(screen) /\ ~(screen = "ServerSettings" /\ editing)
    /\ \/ d = 4 /\ acts /\ StartServer
       \/ /\ d # 4 /\ acts
          /\ screen' = to
          /\ UNCHANGED <<modal, quit, setup, peers, server>>
          /\ IF SavedOnLeave(screen, to) THEN PersistAny(rows, cursor) ELSE KeepData
       \/ ~acts /\ UNCHANGED <<screen, modal, quit, setup, peers, server>> /\ KeepData

\* open_host_editor, open_header_editor, open_credential_issue
OpenEditor(from, to, l) ==
    /\ Key(from) /\ screen' = to
    /\ \/ rows[l] < MaxRows /\ edit' = -1
       \/ rows[l] > 0 /\ edit' = cursor[l]
    /\ UNCHANGED <<modal, editing, draft>> /\ Still /\ KeepData

\* The form is accepted (handle_host_editor, handle_header_editor) and saved.
Accept(from, to, l) ==
    /\ Key(from) /\ screen' = to
    /\ UNCHANGED <<modal, setup>> /\ Still
    /\ IF edit >= rows[l] THEN Panic
       ELSE IF edit >= 0 THEN PersistAny(rows, cursor)
       ELSE PersistAny([rows EXCEPT ![l] = @ + 1], [cursor EXCEPT ![l] = rows[l]])

HomeKeys ==
    \/ Move("ServerHome", "hosts")
    \/ OpenEditor("ServerHome", "HostEditor", "hosts")
    \/ rows["hosts"] > 0 /\ Ask("ServerHome", "DeleteHost")
    \/ SaveNow("ServerHome", "ServerHome")
    \/ Go("ServerHome", "Landing")
    \/ SaveNow("HostEditor", "ServerHome")
    \/ Accept("HostEditor", "ServerHome", "hosts")

\* confirm_setting_input: the first Enter opens the field, the next confirms it.
Confirm ==
    /\ Key("ServerSettings")
    /\ \/ ~editing /\ editing' = TRUE
       \/ editing /\ draft = "ok" /\ editing' = FALSE
    /\ UNCHANGED <<screen, modal, draft, edit>> /\ Still /\ KeepData

\* Text of a field, or the listen mode.
Type ==
    /\ Key("ServerSettings")
    /\ \/ editing /\ draft' \in {"ok", "bad"}
       \/ ~editing /\ UNCHANGED draft
    /\ dirty' = TRUE
    /\ UNCHANGED <<screen, modal, editing, edit, rows, cursor, own, config, role, panicked, used>>
    /\ Still

\* blur_setting_field: a text that is not valid becomes the default.
Blurred(d) == "ok"

\* change_settings_field
NextField ==
    /\ Key("ServerSettings") /\ editing
    /\ editing' = FALSE /\ draft' = Blurred(draft)
    /\ UNCHANGED <<screen, modal, edit>> /\ Still /\ KeepData

\* Esc leaves settings_editing as it is.
LeaveSettings ==
    /\ Key("ServerSettings") /\ screen' = "ServerHome"
    /\ draft' = IF editing THEN Blurred(draft) ELSE draft
    /\ PersistAny(rows, cursor)
    /\ UNCHANGED <<modal, editing, edit>> /\ Still

SettingsKeys ==
    \/ Confirm \/ Type \/ NextField \/ LeaveSettings
    \/ /\ ~editing
       /\ \/ Move("ServerSettings", "headers")
          \/ OpenEditor("ServerSettings", "HeaderEditor", "headers")
          \/ rows["headers"] > 0 /\ Ask("ServerSettings", "DeleteHeader")
          \/ SaveNow("ServerSettings", "ServerSettings")
    \/ SaveNow("HeaderEditor", "ServerSettings")
    \/ Accept("HeaderEditor", "ServerSettings", "headers")

\* issue_credential: the candidate is the configuration in memory, not the view,
\* and hosts of a catalog do not validate.  Only a save that was not written
\* keeps the form of a new credential; an edit is left only after a clean save.
Issue ==
    /\ Key("CredentialIssue")
    /\ \E a \in SaveAnswers :
          /\ ~own => a = "failed"
          /\ Commit([config EXCEPT !["clients"] = IF edit = -1 THEN @ + 1 ELSE @], a)
          /\ screen' = IF a = "ok" \/ (edit = -1 /\ a = "uncertain")
                       THEN "Credentials" ELSE "CredentialIssue"
          /\ IF a = "failed" THEN UNCHANGED <<rows, cursor, own, dirty>>
             ELSE LoadView(IF edit # -1 THEN cursor
                           ELSE [cursor EXCEPT !["clients"] = config["clients"]])
    /\ UNCHANGED <<modal, setup, panicked>> /\ Still

CredentialKeys ==
    \/ Move("Credentials", "clients")
    \/ rows["hosts"] > 0 /\ OpenEditor("Credentials", "CredentialIssue", "clients")
    \/ rows["clients"] > 0 /\ Ask("Credentials", "RevokeCredential")
    \/ Go("Credentials", "ServerHome")
    \/ SaveNow("Credentials", "SaveExit")
    \/ Go("CredentialIssue", "Credentials")
    \/ Issue

OtherKeys ==
    \/ Ask("ServerRunning", "StopServer")
    \/ SaveNow("SaveExit", "SaveExit")
    \/ Go("SaveExit", "ServerHome")
    \/ /\ Key("SaveExit") /\ modal' = "Exit"       \* q saves once more
       /\ UNCHANGED <<screen, setup>> /\ Still
       /\ PersistAny(rows, cursor)
    \/ Go("Landing", "ServerHome") \/ Go("Landing", "ClientConnect")
    \/ Ask("Landing", "Exit")

-----------------------------------------------------------------------------
(* Client pages *)

HoldClient == UNCHANGED <<modal, quit, setup, server, config, panicked, dirty>>

\* connect_client: settings are written, the credential is loaded, the actor is
\* started; each may fail.  Memory takes the settings over at the very end.
Connect ==
    /\ Key("ClientConnect") /\ role.mem # "server"
    /\ used.connects < MaxConnects
    /\ used' = [used EXCEPT !.connects = @ + 1]
    /\ \E a \in SaveAnswers, loaded, spawned \in BOOLEAN :
          LET connected == a = "ok" /\ loaded /\ spawned IN
          /\ role' = [mem |-> IF connected THEN "client" ELSE role.mem,
                      disk |-> IF a = "failed" THEN role.disk ELSE "client"]
          /\ client' = connected
          /\ wake' = IF a = "ok" /\ loaded THEN "none" ELSE wake
          /\ screen' = IF connected THEN "ClientHosts" ELSE screen
          /\ rows' = IF connected THEN [rows EXCEPT !["hosts"] = 0] ELSE rows
          /\ own' = (own /\ ~connected)
          /\ pick' = IF connected THEN 0 ELSE pick
    /\ UNCHANGED <<cursor, repair>> /\ HoldClient

\* Esc: shutdown_client.
LeaveHosts ==
    /\ Key("ClientHosts") /\ screen' = "ClientConnect"
    /\ client' = FALSE /\ wake' = "none"
    /\ UNCHANGED <<pick, repair, rows, own, cursor, role, used>> /\ HoldClient

\* The cursor of the host page, and start_wake.
HostKeys ==
    /\ Key("ClientHosts")
    /\ \/ \E at \in {pick - 1, pick + 1} :
             at >= 0 /\ pick' = Clamped(at, rows["hosts"]) /\ UNCHANGED <<screen, wake>>
       \/ /\ client /\ rows["hosts"] > 0
          /\ wake' = "running" /\ screen' = "Wake" /\ UNCHANGED pick
    /\ UNCHANGED <<client, repair, rows, own, cursor, role, used>> /\ HoldClient

\* Esc at any time, Enter when the wake is over.
LeaveWake ==
    /\ Key("Wake") /\ screen' = "ClientHosts" /\ wake' = "none"
    /\ UNCHANGED <<client, pick, repair, rows, own, cursor, role, used>> /\ HoldClient

\* open_credential_repair and the repair page share credential_index.
OpenRepair ==
    /\ Key("ClientConnect") /\ screen' = "CredentialRepair"
    /\ repair' \in 0 .. MaxRows
    /\ cursor' = [cursor EXCEPT !["clients"] = 0]
    /\ UNCHANGED <<client, wake, pick, rows, own, role, used>> /\ HoldClient

MoveRepair ==
    /\ Key("CredentialRepair")
    /\ \E at \in {cursor["clients"] - 1, cursor["clients"] + 1} :
          /\ at >= 0
          /\ cursor' = [cursor EXCEPT !["clients"] = Clamped(at, repair)]
    /\ UNCHANGED <<screen, client, wake, pick, repair, rows, own, role, used>> /\ HoldClient

\* close_credential_repair, also after repair_selected_credentials.
CloseRepair ==
    /\ Key("CredentialRepair") /\ screen' = "ClientConnect"
    /\ repair' = 0
    /\ cursor' = [cursor EXCEPT !["clients"] = 0]
    /\ UNCHANGED <<client, wake, pick, rows, own, role, used>> /\ HoldClient

ClientKeys ==
    \/ Connect \/ LeaveHosts \/ HostKeys \/ LeaveWake
    \/ OpenRepair \/ MoveRepair \/ CloseRepair
    \/ Go("ClientConnect", "Landing")

\* apply_client_event, as far as it touches the screens: Connecting and Hosts.
Catalog ==
    /\ client /\ ~(wake # "none" /\ screen = "Wake")
    /\ used.events < MaxEvents /\ used' = [used EXCEPT !.events = @ + 1]
    /\ \E n \in 0 .. MaxRows : rows' = [rows EXCEPT !["hosts"] = n]
    /\ pick' = 0
    /\ UNCHANGED <<screen, client, wake, repair, own, cursor, role>> /\ HoldClient

WakeFinishes ==
    /\ client /\ wake = "running" /\ wake' = "finished"
    /\ UNCHANGED <<screen, client, pick, repair, rows, own, cursor, role, used>> /\ HoldClient

\* Disconnected; an unfinished wake keeps its page.
ClientGone ==
    /\ client /\ client' = FALSE
    /\ screen' = IF wake # "running" /\ screen \in {"ClientHosts", "Wake"}
                 THEN "ClientConnect" ELSE screen
    /\ UNCHANGED <<wake, pick, repair, rows, own, cursor, role, used>> /\ HoldClient

-----------------------------------------------------------------------------

\* The loop of run_tui ends with quit or a panic; then everything is shut down.
Running == ~quit /\ ~panicked

ScreenNext ==
    /\ Running
    /\ \/ \E d \in Digits : Digit(d)
       \/ HomeKeys \/ SettingsKeys \/ CredentialKeys \/ OtherKeys \/ ClientKeys
       \/ Modal \/ Help
       \/ Catalog \/ WakeFinishes \/ ClientGone
       \/ Tick \/ ThreadListens \/ ThreadReports \/ ThreadEnds

ScreenSpec == ScreenInit /\ [][ScreenNext]_screenVars

-----------------------------------------------------------------------------
(* Properties *)

\* The screen, cursors, editors and the server thread keep their types.
ScreenTypeOK ==
    /\ screen \in Screens /\ modal \in Modals
    /\ rows \in [Lists -> 0 .. MaxRows + 1] /\ config \in [Lists -> 0 .. MaxRows]
    /\ edit \in -1 .. MaxRows /\ pick \in Nat
    /\ server.thread \in {"none", "starting", "listening", "ended"}
    /\ server.phase \in {"Stopped", "Starting", "Running", "Failed"}

\* No edit is left behind unsaved: outside the pages that edit it, the server's
\* view is the configuration, and quitting drops nothing.
NoUnsavedEdits ==
    screen \in Screens \ {"ServerSettings", "HeaderEditor"} => ~dirty

\* A save is never refused for what was typed into the settings.
DraftsAreValid == screen # "ServerSettings" => draft = "ok"

\* On the configuration's own lists no key indexes past the end, with cursors
\* shared between pages and lists reloaded under an open editor.
OwnListsIndexed ==
    /\ panicked => ~own
    /\ screen = "CredentialRepair" /\ repair > 0 => cursor["clients"] < repair

\* The client runs only behind its own pages: nothing writes a catalog into the
\* host list while the server's pages show it.
ClientOnItsPages == client => screen \in {"ClientHosts", "Wake"}

\* What the header shows of the server is true after every tick: Stopped only
\* without a thread, Running only with one, and a running server not as Failed.
PhaseIsTrue ==
    LET s == Ticked(server) IN
    /\ s.phase = "Stopped" => s.thread = "none"
    /\ s.phase = "Running" => s.thread # "none"
    /\ s.thread = "listening" => s.phase = "Running"

ScreensSound ==
    /\ ScreenTypeOK /\ NoUnsavedEdits /\ DraftsAreValid
    /\ OwnListsIndexed /\ ClientOnItsPages /\ PhaseIsTrue

-----------------------------------------------------------------------------
(* The inductive strengthening *)

\* The phase on the screen lags behind the thread, but not the other way.
ServerSound(s) ==
    /\ s \in [thread : {"none", "starting", "listening", "ended"},
              phase : {"Stopped", "Starting", "Running", "Failed"}, fatal : BOOLEAN]
    /\ s.thread = "none" => s.phase \in {"Stopped", "Failed"}
    /\ s.thread = "starting" => s.phase # "Stopped"

\* What may be unfinished, and what may be open, on which page.
PageInv ==
    /\ screen \in Screens /\ modal \in Modals /\ draft \in {"ok", "bad"}
    /\ editing \in BOOLEAN /\ dirty \in BOOLEAN /\ client \in BOOLEAN
    /\ draft = "bad" => editing /\ screen = "ServerSettings"
    /\ dirty => screen \in {"ServerSettings", "HeaderEditor"}
    /\ client => screen \in {"ClientHosts", "Wake"} /\ ~own
    /\ modal = "DeleteHost" => screen = "ServerHome"
    /\ modal = "DeleteHeader" => screen = "ServerSettings"
    /\ modal = "RevokeCredential" => screen = "Credentials"
    /\ modal = "StopServer" => screen = "ServerRunning"

\* The row or the room that an open editor was opened for is still there.
EditorFor(page, l) ==
    screen = page =>
        /\ edit = -1 => rows[l] < MaxRows
        /\ own /\ l # "clients" => edit < rows[l]

\* The cursors are within the lists, but for the clients' on the repair page.
ListInv ==
    /\ rows \in [Lists -> 0 .. MaxRows] /\ config \in [Lists -> 0 .. MaxRows]
    /\ cursor \in [Lists -> 0 .. MaxRows] /\ rows["clients"] = config["clients"]
    /\ edit \in -1 .. MaxRows /\ pick \in Nat /\ repair \in 0 .. MaxRows
    /\ own \in BOOLEAN /\ panicked \in BOOLEAN
    /\ own => \A l \in Lists :
                 rows[l] > 0 /\ ~(l = "clients" /\ screen = "CredentialRepair")
                     => cursor[l] < rows[l]
    /\ screen = "CredentialRepair" /\ repair > 0 => cursor["clients"] < repair
    /\ EditorFor("HostEditor", "hosts") /\ EditorFor("HeaderEditor", "headers")
    /\ EditorFor("CredentialIssue", "clients")
    /\ panicked => ~own

ConsoleInv == ServerSound(server) /\ PageInv /\ ListInv

=============================================================================
