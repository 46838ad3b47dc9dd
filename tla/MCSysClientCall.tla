--------------------------- MODULE MCSysClientCall ---------------------------
EXTENDS SysClientCall

CONSTANT AllTexts   \* the texts tried with one option at a time

AllKeys == UNION {KeysOf(e) : e \in DOMAIN Endpoints}

\* Nothing set, one option, or all of an endpoint.
OptionSets ==
  {NoOptions}
  \cup {[keys |-> {k}, text |-> t, null |-> FALSE] : k \in AllKeys, t \in AllTexts}
  \cup {[keys |-> KeysOf(e), text |-> <<"c">>, null |-> b] : e \in DOMAIN Endpoints, b \in BOOLEAN}
OneTexts == {<<"c", "quote">>, <<"ctl", "backslash", "n">>}
Budgets == {0, 1, 3, 100}

\* What follows an opening quote: two fragments, closed or not.
Fragments == {<<>>, <<"c">>, <<"ctl">>, <<"backslash">>, <<"backslash", "n">>, <<"backslash", "c">>,
              Hex("ascii"), Hex("bmp"), Hex("high"), Hex("low"), Hex("zero"),
              <<"backslash", "u", "bmp">>, <<"quote">>}
StringsTried == {a \o b : a, b \in Fragments} \cup {a \o b \o <<"quote">> : a, b \in Fragments}
NumbersTried == UNION {[1..k -> NumberChars] : k \in 1..3}
=============================================================================
