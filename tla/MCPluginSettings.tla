-------------------------- MODULE MCPluginSettings --------------------------
(* Small values for the constants of PluginSettings: a secret, a number and *)
(* two topics, required by the form as in the door plugin or as in the      *)
(* camera plugin.                                                           *)
EXTENDS PluginSettings, TLC

CONSTANTS secret, number, base, topic

MCFields == {secret, number, base, topic}
Door == [mandatory |-> MCFields, essential |-> {secret, base}]
Camera == [mandatory |-> {base, topic}, essential |-> {base}]
MCProfiles == {Door, Camera}

MCShipped == [f \in MCFields |-> CASE f = secret -> "" [] f = number -> "5"
                                   [] f = base -> "home" [] f = topic -> "state"]

Form(s, n, b) == [f \in MCFields |-> CASE f = secret -> s [] f = number -> n
                                       [] f = base -> b [] f = topic -> "state"]

\* The last two fail the form's validation.
MCForms ==
    {Form("", "9", "barn"), Form("key", "9", "barn"), Form("50%", "9", "barn"),
     Form("odd key", "9", "barn"), Form("", "5", "my barn"),
     Form("key", "", "barn"), Form("key", "often", "barn")}

\* A key with a quote in it grows once; no run escapes it a third time.
MCEscaped == [v \in Values |-> CASE v = "odd key" -> "odd key 2"
                                 [] v = "odd key 2" -> "odd key 3" [] OTHER -> v]

SessionsAreAlike == Permutations(Sessions)
=============================================================================
