------------------------------ MODULE FtpAccess ------------------------------
(***************************************************************************)
(* Who may use the FTP server (src/app/install/ftp.js with its callers in  *)
(* form_methods.js and index.js).  The database holds a field ftp_access   *)
(* per user; each process that changes it keeps a list of the users it     *)
(* allows and the text of the configuration it knows, both read once; the  *)
(* server follows the configuration it has loaded.                         *)
(***************************************************************************)
EXTENDS FiniteSets

CONSTANT UserNames  \* names a user may get

VARIABLES
    users,   \* the users in the database
    access,  \* those with ftp_access
    list,    \* allowedUsers of the panel's process
    known,   \* conf_str of the panel's process: the set of the users it names,
             \* as the only element of a set; empty before it is read
    file,    \* the users the configuration file names
    loaded,  \* the users the running server admits
    server   \* the server runs

vars == <<users, access, list, known, file, loaded, server>>

\* Everything has its type.
TypeOK ==
    /\ users \subseteq UserNames /\ access \subseteq users
    /\ list \subseteq UserNames
    /\ known \in {{}} \cup {{c} : c \in SUBSET UserNames}
    /\ file \subseteq UserNames /\ loaded \subseteq UserNames
    /\ server \in BOOLEAN
    /\ known = {} => list = {}
    /\ ~server => loaded = {}

Init ==
    /\ users = {} /\ access = {}
    /\ list = {} /\ known = {}
    /\ file = {} /\ loaded = {} /\ server = TRUE

-----------------------------------------------------------------------------

\* The outcomes of saveConfig in a process that allows l and knows the text c.
\* The new text is kept only if the server, where one runs, took it.
saveConfig(l, c) ==
    IF l = c THEN {[file |-> file, loaded |-> loaded, known |-> c]}
    ELSE {[file |-> l, loaded |-> IF server THEN l ELSE {}, known |-> l]}
           \cup (IF server THEN {[file |-> l, loaded |-> loaded, known |-> c]} ELSE {})

Save(l, c) ==
    \E res \in saveConfig(l, c) :
        file' = res.file /\ loaded' = res.loaded /\ known' = {res.known}

\* readConfigOnce: the list comes from the database, the text from the file,
\* which the installation has put there (without it both changes are refused).
ListRead(l, db) == IF known = {} THEN db ELSE l
TextRead == IF known = {} THEN file ELSE CHOOSE c \in known : TRUE

\* allowUser and denyUser of the panel, for a database in which db have the
\* field.  They leave the list alone if the field is already as it should be.
Allow(u, db) ==
    /\ access' = db \cup {u}
    /\ list' = IF u \in db THEN ListRead(list, db) ELSE ListRead(list, db) \cup {u}
    /\ Save(list', TextRead)

\* Mutant: the list starts from the file.
DenyFromFile(u, db) ==
    LET l == IF known = {} THEN file ELSE list IN
    /\ access' = db \ {u}
    /\ list' = IF u \in db THEN l \ {u} ELSE l
    /\ Save(list', TextRead)

Deny(u, db) ==
    /\ access' = db \ {u}
    /\ list' = IF u \in db THEN ListRead(list, db) \ {u} ELSE ListRead(list, db)
    /\ Save(list', TextRead)

-----------------------------------------------------------------------------

\* The user form, add or edit: the field is stored with the others first.
ApplyUser(u, ftp_access) ==
    /\ users' = users \cup {u}
    /\ IF ftp_access THEN Allow(u, access \cup {u}) ELSE Deny(u, access \ {u})
    /\ UNCHANGED server

\* A user edits his own profile: the field is not on the form, so not stored,
\* and what is not there counts as no.
ApplyOwn(u) ==
    /\ u \in users
    /\ Deny(u, access)
    /\ UNCHANGED <<users, server>>

\* database.deleteUser, deletePlan: the server is not told.
RemoveUser(u) ==
    /\ u \in users
    /\ users' = users \ {u} /\ access' = access \ {u}
    /\ UNCHANGED <<list, known, file, loaded, server>>

\* jx index ftp allow, ftp deny: a process of its own, which reads everything.
Shell(u, allow) ==
    /\ u \in users
    /\ access' = IF allow THEN access \cup {u} ELSE access \ {u}
    /\ \E res \in saveConfig(access', file) :
          file' = res.file /\ loaded' = res.loaded
    /\ UNCHANGED <<users, list, known, server>>

\* jx index ftp start, ftp reload; the panel starts the server, too.
ServerLoads ==
    /\ server' = TRUE /\ loaded' = file
    /\ UNCHANGED <<users, access, list, known, file>>

ServerStops ==
    /\ server' = FALSE /\ loaded' = {}
    /\ UNCHANGED <<users, access, list, known, file>>

PanelRestarts ==
    /\ list' = {} /\ known' = {}
    /\ UNCHANGED <<users, access, file, loaded, server>>

Next ==
    \/ \E u \in UserNames, yes \in BOOLEAN : ApplyUser(u, yes) \/ Shell(u, yes)
    \/ \E u \in UserNames : ApplyOwn(u) \/ RemoveUser(u)
    \/ ServerLoads \/ ServerStops \/ PanelRestarts

Spec == Init /\ [][Next]_vars

-----------------------------------------------------------------------------
(* Properties.                                                             *)

\* The first change a process makes puts the file right, whatever earlier
\* processes, failed restarts of the server and removals of users have left
\* in it (readConfigOnce, ftp.js:106-124, reads the database, not the file).
FirstChangePutsRight ==
    [][\A u \in UserNames, yes \in BOOLEAN :
        \/ Shell(u, yes)
        \/ known = {} /\ (ApplyUser(u, yes) \/ ApplyOwn(u))
        => file' = access']_vars

\* "Grants an access to user's home directory by an FTP protocol"
\* (docs/adduser.markdown:33): the form stores the field, and the file says
\* the same of that user afterwards.
GrantedInFile ==
    [][\A u \in UserNames, yes \in BOOLEAN :
        ApplyUser(u, yes) => (u \in file' <=> yes)]_vars

\* "This field is readonly when user is editing his/her own profile"
\* (docs/adduser.markdown:35).
OwnFieldKept == [][\A u \in UserNames : ApplyOwn(u) => access' = access]_vars
=============================================================================
