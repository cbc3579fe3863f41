----------------------- MODULE ApplicationProfileLoader -----------------------
(***************************************************************************)
(* ApplicationProfileLoader.java: which properties file the system         *)
(* property "profile" selects, and what the plugin reads from it.  "none"  *)
(* is the profile of a server started without -Dprofile; "other" stands    *)
(* for every profile that the repository has no file for.                  *)
(***************************************************************************)

KnownProfiles == {"none", "local", "other"}

(* loadProperties: the stream of a file that does not exist is null, and   *)
(* Properties.load raises for it (the catch clause is for IOException).    *)
Loadable(profile) == profile # "other"

(* verification.skip, which only application-local.properties sets; the    *)
(* other file sets sidecar.url, so whoever verifies has an address.        *)
IsSkipVerification(profile) == profile = "local"
===============================================================================
