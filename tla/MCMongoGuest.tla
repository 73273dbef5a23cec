---------------------------- MODULE MCMongoGuest ----------------------------
(* Option lists that meet: dotted and plain keys in both orders, obsolete    *)
(* settings from the stock template, and the guest's own cache size.         *)
EXTENDS MongoGuest

Leaf(v) == [p \in {<<>>} |-> v]
Entry(key, v) == [key |-> key, value |-> Leaf(v)]
Verbosity == <<"systemLog", "verbosity">>

\* The stock template, in nested form.
Template ==
    <<[key |-> <<"storage">>,
       value |-> [p \in {<<"mmapv1", "smallFiles">>, <<"journal", "enabled">>} |-> "on"]],
      [key |-> <<"systemLog">>,
       value |-> [p \in {<<"destination">>, <<"quiet">>} |->
                    IF p = <<"destination">> THEN "stderr" ELSE "on"]]>>
\* Dotted keys before and after a dict that replaces them.
Dotted ==
    <<Entry(<<"storage", "journal", "enabled">>, "on"), Entry(Verbosity, "low"),
      [key |-> <<"systemLog">>, value |-> [p \in {<<"quiet">>} |-> "off"]],
      Entry(<<"systemLog", "destination">>, "file"), Entry(CachePath, 512000)>>

Options == {Template, Dotted}
Hosts == {{"c1"}}
=============================================================================
