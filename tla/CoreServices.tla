---------------------------- MODULE CoreServices ----------------------------
(***************************************************************************)
(* Five services of the Go core side by side: the event hub, the session   *)
(* with Pixiv, the image proxy, the configuration manager and the updater. *)
(* They share no state. The manager's reload hooks are calls into the      *)
(* others, and each of them takes a reload as a step of its own, at any    *)
(* moment.  So one service at a time is taken through its steps while the  *)
(* others rest: what holds of each then holds of all.                      *)
(***************************************************************************)
EXTENDS HubProperties, PixivSession, ImageCache, Settings, Updater

VARIABLE service  \* the service that moves

svars == <<service, vars, zvars, ivars, stvars, uvs>>

Parts == {"hub", "session", "images", "settings", "updates"}

\* A service at rest, where its own specification could start in several ways.
SessionRests  == token = NoToken /\ ~due
ImagesRest    == cached = {} /\ cap = 0
SettingsRest  == env = NoKeys /\ saved = NoKeys /\ build = CHOOSE b \in Builds : TRUE
UpdatesRest   == feed = {running} /\ (\A v \in Versions : running <= v) /\ channel = CHOOSE c \in Channels : TRUE

SvcInit ==
  /\ service \in Parts
  /\ Init /\ ZInit /\ IInit /\ SInit /\ UInit
  /\ service = "session" \/ SessionRests
  /\ service = "images" \/ ImagesRest
  /\ service = "settings" \/ SettingsRest
  /\ service = "updates" \/ UpdatesRest

Hub     == service = "hub" /\ Next /\ UNCHANGED <<service, zvars, ivars, stvars, uvs>>
Session == service = "session" /\ ZNext /\ UNCHANGED <<service, vars, ivars, stvars, uvs>>
Proxy   == service = "images" /\ INext /\ UNCHANGED <<service, vars, zvars, stvars, uvs>>
Manager == service = "settings" /\ SNext /\ UNCHANGED <<service, vars, zvars, ivars, uvs>>
Update  == service = "updates" /\ UNext /\ UNCHANGED <<service, vars, zvars, ivars, stvars>>

SvcNext == Hub \/ Session \/ Proxy \/ Manager \/ Update

SvcSpec == SvcInit /\ [][SvcNext]_svars
=============================================================================
