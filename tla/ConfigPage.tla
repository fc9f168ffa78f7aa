------------------------------ MODULE ConfigPage ------------------------------
(***************************************************************************)
(* The page "Config" (config.component.ts) and its routes                  *)
(* (routes_config.py, deps.py): the configuration is loaded once, edited,  *)
(* and saved as a whole, the password first exchanged for a session; an    *)
(* upload of a file changes one entry at the server and, when it answers,  *)
(* in the page, where its path can be typed as well.                       *)
(***************************************************************************)
EXTENDS Integers, FiniteSets

CONSTANTS
  Paths,      \* of files, uploaded or typed
  Settings,   \* what the other entries may be
  Passwords,
  Unset,      \* an entry that is missing or empty
  Config0     \* configurations the server may have at first

\* The entries: the paths of the OVF and of the ISO file, the password, and another.
Files == {"ovf_path", "memboot_iso_path"}
Config == [path : [Files -> Paths \cup {Unset}], password : Passwords \cup {Unset},
           other : Settings \cup {Unset}]
NoConfig == [path |-> [f \in Files |-> Unset], password |-> Unset, other |-> Unset]

ASSUME ConfigAssumption ==
  /\ Unset \notin Paths \cup Settings \cup Passwords
  /\ Config0 \subseteq Config

VARIABLES
  configPlugin,   \* plugin.isPlugin
  cfg,            \* this.cfg
  cfgLoad,        \* getConfig: [pc, value]
  saves,          \* of save(): [no, pc, value], at first the session, then the configuration
  uploads,        \* [no, pc, file, path, value]: value is what the server has read
  storedCfg,      \* at the server
  token,          \* sessionToken
  lastUpload,     \* history: for each file the path of the upload that was answered last, unless
                  \* the user has typed another since
  passwordsSent,  \* history: how often a password has been sent
  configCalm      \* history: the page was loaded before a save, and nothing overlapped a save

configVars == <<configPlugin, cfg, cfgLoad, saves, uploads, storedCfg, token, lastUpload, passwordsSent,
                configCalm>>

ConfigTypeOK ==
  /\ configPlugin \in BOOLEAN
  /\ {cfg, storedCfg} \subseteq Config
  /\ cfgLoad \in [pc : {"sent", "answered", "done"}, value : Config]
  /\ saves \subseteq [no : Nat, pc : {"session", "granted", "refused", "sent"}, value : Config]
  /\ uploads \subseteq [no : Nat, pc : {"sent", "read", "written"}, file : Files, path : Paths,
                value : Config]
  /\ token \in Passwords \cup {Unset} /\ lastUpload \in [Files -> Paths \cup {Unset}]
  /\ passwordsSent \in [Passwords -> Nat] /\ configCalm \in BOOLEAN

ConfigInit ==
  /\ configPlugin \in BOOLEAN
  /\ cfg = NoConfig
  /\ cfgLoad = [pc |-> "sent", value |-> NoConfig]
  /\ saves = {} /\ uploads = {}
  /\ storedCfg \in Config0
  /\ token = Unset
  /\ lastUpload = [f \in Files |-> Unset]
  /\ passwordsSent = [p \in Passwords |-> 0]
  /\ configCalm = TRUE

Sent(password) ==
  passwordsSent' = [p \in Passwords |-> passwordsSent[p] + (IF p = password THEN 1 ELSE 0)]

ConfigServed ==
  /\ cfgLoad.pc = "sent"
  /\ cfgLoad' = [pc |-> "answered", value |-> storedCfg]
  /\ UNCHANGED <<configPlugin, cfg, saves, uploads, storedCfg, token, lastUpload, passwordsSent, configCalm>>

\* What was typed or uploaded before is replaced.
ConfigAnswered ==
  /\ cfgLoad.pc = "answered"
  /\ cfg' = cfgLoad.value
  /\ cfgLoad' = [pc |-> "done", value |-> NoConfig]
  /\ UNCHANGED <<configPlugin, saves, uploads, storedCfg, token, lastUpload, passwordsSent, configCalm>>

ConfigFails ==
  /\ cfgLoad.pc = "sent"
  /\ cfgLoad' = [pc |-> "done", value |-> NoConfig]
  /\ configCalm' = FALSE
  /\ UNCHANGED <<configPlugin, cfg, saves, uploads, storedCfg, token, lastUpload, passwordsSent>>

\* The inputs of the page, the paths among them.
EditConfig ==
  /\ \/ /\ \/ \E p \in Passwords \cup {Unset} : cfg' = [cfg EXCEPT !.password = p]
           \/ \E s \in Settings : cfg' = [cfg EXCEPT !.other = s]
        /\ UNCHANGED lastUpload
     \/ \E f \in Files, path \in Paths \cup {Unset} :
          /\ cfg' = [cfg EXCEPT !.path[f] = path]
          /\ lastUpload' = [lastUpload EXCEPT ![f] = Unset]
  /\ UNCHANGED <<configPlugin, cfgLoad, saves, uploads, storedCfg, token, passwordsSent, configCalm>>

\* doSave: the configuration as it is at that time, the password among its entries.
Put(save) == [save EXCEPT !.pc = "sent", !.value = cfg]

SaveConfig(no) ==
  LET save == [no |-> no, pc |-> "session", value |-> cfg]
  IN /\ saves' = saves \cup {IF ~configPlugin /\ cfg.password # Unset THEN save ELSE Put(save)}
     /\ Sent(cfg.password)
     /\ configCalm' = (configCalm /\ cfgLoad.pc = "done" /\ saves = {} /\ uploads = {})
     /\ UNCHANGED <<configPlugin, cfg, cfgLoad, uploads, storedCfg, token, lastUpload>>

\* A session for the password of the request, or an error.
SessionServed(save) ==
  /\ save.pc = "session"
  /\ \E pc \in {"granted", "refused"} : saves' = (saves \ {save}) \cup {[save EXCEPT !.pc = pc]}
  /\ UNCHANGED <<configPlugin, cfg, cfgLoad, uploads, storedCfg, token, lastUpload, passwordsSent, configCalm>>

SessionAnswered(save) ==
  /\ save.pc \in {"granted", "refused"}
  /\ IF save.pc = "granted"
     THEN /\ token' = save.value.password
          /\ saves' = (saves \ {save}) \cup {Put(save)}
          /\ Sent(cfg.password)
     ELSE saves' = saves \ {save} /\ UNCHANGED <<token, passwordsSent>>
  /\ UNCHANGED <<configPlugin, cfg, cfgLoad, uploads, storedCfg, lastUpload, configCalm>>

\* _write_config drops what is sensitive.
Written(config) == [config EXCEPT !.password = Unset]

ConfigSaved(save) ==
  /\ save.pc = "sent"
  /\ storedCfg' = Written(save.value)
  /\ saves' = saves \ {save}
  /\ UNCHANGED <<configPlugin, cfg, cfgLoad, uploads, token, lastUpload, passwordsSent, configCalm>>

Upload(no) ==
  /\ \E f \in Files, path \in Paths :
       uploads' = uploads \cup {[no |-> no, pc |-> "sent", file |-> f, path |-> path, value |-> NoConfig]}
  /\ configCalm' = (configCalm /\ saves = {} /\ uploads = {} /\ cfgLoad.pc = "done")
  /\ UNCHANGED <<configPlugin, cfg, cfgLoad, saves, storedCfg, token, lastUpload, passwordsSent>>

\* The handler of the upload reads the configuration and writes it back with the path.  A
\* save is handled by another thread and may come in between, another upload may not: their
\* handlers are coroutines of one event loop that do not wait in between.
UploadMoves(u) ==
  /\ \/ /\ u.pc = "sent" /\ \A w \in uploads : w.pc # "read"
        /\ uploads' = (uploads \ {u}) \cup {[u EXCEPT !.pc = "read", !.value = storedCfg]}
        /\ UNCHANGED storedCfg
     \/ /\ u.pc = "read"
        /\ uploads' = (uploads \ {u}) \cup {[u EXCEPT !.pc = "written"]}
        /\ storedCfg' = Written([u.value EXCEPT !.path[u.file] = u.path])
  /\ UNCHANGED <<configPlugin, cfg, cfgLoad, saves, token, lastUpload, passwordsSent, configCalm>>

\* Faulty: the page does not take the path over.
PathUnknown(config, f, path) == config

PathKnown(config, f, path) == [config EXCEPT !.path[f] = path]

UploadAnswered(u) ==
  /\ u.pc = "written"
  /\ cfg' = PathKnown(cfg, u.file, u.path)
  /\ uploads' = uploads \ {u}
  /\ lastUpload' = [lastUpload EXCEPT ![u.file] = u.path]
  /\ UNCHANGED <<configPlugin, cfgLoad, saves, storedCfg, token, passwordsSent, configCalm>>

ConfigClick(no) == EditConfig \/ SaveConfig(no) \/ Upload(no)

ConfigAnswers ==
  \/ ConfigServed \/ ConfigAnswered \/ ConfigFails
  \/ \E s \in saves : SessionServed(s) \/ SessionAnswered(s) \/ ConfigSaved(s)
  \/ \E u \in uploads : UploadMoves(u) \/ UploadAnswered(u)
=============================================================================
