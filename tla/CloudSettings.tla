---------------------------- MODULE CloudSettings ----------------------------
(***************************************************************************)
(* How what an operator writes in cloud.yaml becomes the cloud a request   *)
(* connects by: platform/range/cloud.py reads and checks the file, bin/cloud *)
(* hands its heat_parameters to the stack, and openstack.connect parses    *)
(* what the stack passed on.  A value is what the checks tell apart of it. *)
(***************************************************************************)
VARIABLES
    doc,      \* the document: a value for each setting, and whether it has another
    secret,   \* the variable or the file it names for the password holds one
    stage,
    stack,    \* the parameters of the Heat stack
    build     \* what connect makes of them

settingsVars == <<doc, secret, stage, stack, build>>

-----------------------------------------------------------------------------
(* The schema. *)

Names == {"region", "interface", "domain", "project", "user", "external", "base_image",
          "operator", "stack", "ref"}
Urls == {"mirror", "repository"}
Cidrs == {"platform", "estate", "mgmt"}
Texts == {"password_file", "operator_file", "range"}
Counts == {"slots", "keep"}
Optional == {"password_file", "password_env", "address", "availability_zone"} \cup Counts
Patterns == {"version", "image_sha256", "pubkey_sha256", "password_env", "address", "dns",
             "availability_zone"}
Settings == Names \cup Urls \cup Cidrs \cup Texts \cup Counts \cup Patterns
              \cup {"keystone", "mtu", "flavors"}

\* What a value of a setting can be.  "absent" is no entry, None or ""; "junk"
\* is another type, or text its pattern refuses; "tail" is a URL, a blank and
\* a word with "=", "blank" one with a blank and a word without.
Values(s) ==
    {"good", "absent", "junk"} \cup
    (CASE s = "keystone" -> {"slash", "v3"}
       [] s \in Urls -> {"blank", "tail"}
       [] s \in Texts -> {"blank"}
       [] s \in Cidrs -> {"public", "pool", "shared"}
       [] s \in Counts \cup {"mtu"} -> {"zero"}
       [] s = "flavors" -> {"short"}
       [] OTHER -> {})

\* The check of a setting passes: a URL is looked at for how it begins only.
Passes(s, v) ==
    /\ v \notin {"junk", "v3", "public", "zero", "short"}
    /\ s \in Texts => v # "blank"

\* The addresses of a network: its own, Docker's pool, or the shared ones.
Held(s, v) == CASE v = "good" -> {s} [] v = "pool" -> {"docker"} [] OTHER -> {"shared"}
Taken == {"docker"}

\* Networks are compared once all of them pass.
Overlaps(values) ==
    /\ \A s \in Cidrs : values[s] # "absent" /\ Passes(s, values[s])
    /\ \E s \in Cidrs :
         \/ Held(s, values[s]) \cap Taken # {}
         \/ \E t \in Cidrs \ {s} : Held(s, values[s]) \cap Held(t, values[t]) # {}

Given(values, s) == values[s] # "absent"

Complaints(document) ==
    LET values == document.values
    IN  \/ document.unknown
        \/ \E s \in Settings \ Optional : ~ Given(values, s)
        \/ \E s \in Settings : Given(values, s) /\ ~ Passes(s, values[s])
        \/ Given(values, "password_file") = Given(values, "password_env")
        \/ Overlaps(values)

Default(s) == IF s \in Counts THEN "one" ELSE "none"

\* (Mutant: the Keystone URL is kept as it is written.)
ParsedAsWritten(values) ==
    [s \in Settings |-> IF Given(values, s) THEN values[s] ELSE Default(s)]

\* Keystone's URL loses its last slash; what is absent has its default.
Parsed(values) ==
    [s \in Settings |-> IF ~ Given(values, s) THEN Default(s)
                        ELSE IF s = "keystone" THEN "good" ELSE values[s]]

\* What heat_parameters passes on, as text: pairs joined with blanks.
Carried == Settings \ ({"project", "stack", "keep", "operator_file", "range"}
                         \cup {"password_file", "password_env"})
HeatParameters(cloud) == [s \in Carried |-> cloud[s]]

\* pairs splits at blanks: a word without "=" is refused, one with it is a key
\* nobody asks for.
Splits(parameters) == parameters["mirror"] # "blank"
Builds(parameters) ==
    [s \in Carried |-> IF s = "mirror" /\ parameters[s] = "tail" THEN "cut" ELSE parameters[s]]

-----------------------------------------------------------------------------

SettingsTypeOK ==
    /\ \A s \in Settings : doc.values[s] \in Values(s)
    /\ doc.unknown \in BOOLEAN /\ secret \in BOOLEAN
    /\ stage \in {"written", "refused", "parsed", "up", "connected", "unreachable"}

\* Two settings are written otherwise, or a password is named twice or not at all.
Usual == [s \in Settings |-> IF s = "password_env" THEN "absent" ELSE "good"]

SettingsInit ==
    /\ \E s, t \in Settings : \E v \in Values(s), w \in Values(t), unknown \in BOOLEAN :
         doc = [unknown |-> unknown, values |-> [Usual EXCEPT ![s] = v, ![t] = w]]
    /\ secret \in BOOLEAN
    /\ stage = "written" /\ stack = <<>> /\ build = <<>>

Read ==
    /\ stage = "written"
    /\ stage' = IF Complaints(doc) THEN "refused" ELSE "parsed"
    /\ UNCHANGED <<doc, secret, stack, build>>

\* bin/cloud up: the CLI's password, then the stack.
Ups ==
    /\ stage = "parsed"
    /\ IF secret
       THEN stage' = "up" /\ stack' = HeatParameters(Parsed(doc.values))
       ELSE stage' = "refused" /\ UNCHANGED stack
    /\ UNCHANGED <<doc, secret, build>>

\* What does not parse is RangeUnavailable for every request.
Connect ==
    /\ stage = "up"
    /\ IF Splits(stack)
       THEN stage' = "connected" /\ build' = Builds(stack)
       ELSE stage' = "unreachable" /\ UNCHANGED build
    /\ UNCHANGED <<doc, secret, stack>>

SettingsNext == Read \/ Ups \/ Connect

SettingsSpec == SettingsInit /\ [][SettingsNext]_settingsVars

-----------------------------------------------------------------------------
(* Properties. *)

\* A file that is accepted is one the platform connects by, and what connect
\* builds the range of is what the file says: every setting comes through the
\* text of the stack's parameters, the networks share no address, and neither
\* is there a Keystone URL that ends in "/" or "/v3".  The one exception is a
\* blank in opnsense.mirror, which the check of a URL lets through and pairs
\* splits at.
SettingsArrive ==
    /\ stage = "connected" /\ doc.values["mirror"] # "tail" =>
         \A s \in Carried : build[s] = IF s = "keystone" THEN "good"
                                      ELSE IF doc.values[s] # "absent" THEN doc.values[s]
                                      ELSE IF s = "slots" THEN "one" ELSE "none"
    /\ stage = "connected" =>
         \A s, t \in Cidrs : s # t => /\ Held(s, build[s]) \cap Held(t, build[t]) = {}
                                      /\ Held(s, build[s]) \cap Taken = {}
    /\ stage = "unreachable" => doc.values["mirror"] = "blank"
=============================================================================
