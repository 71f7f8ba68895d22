--------------------------- MODULE MCBundleContent ---------------------------
(* Instances of BundleContent for TLC.                                     *)
EXTENDS BundleContent

\* The entrypoint, a file in a directory, by two names, and one that stands where
\* the directory would; a directory; a name that goes up and stays inside, two
\* that must be refused.
MCNames == {<<"a">>, <<"b", "c">>, <<".", "b", "", "c">>, <<"b">>, <<"b", "">>,
            <<"b", ".", "..", "a">>, <<"b", "..", "..", "a">>, <<"", "a">>}
MCEntrypoint == <<"a">>
=============================================================================
