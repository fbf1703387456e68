------------------------------ MODULE MCCampaign ------------------------------
EXTENDS Campaign

\* Two variants, so that one follows another; two development windows, so that
\* a later run finds one of them captured; one window to confirm.
MCVariants == <<"baseline", "k2">>
MCWindows == [development |-> <<"s0", "s1">>, confirmation |-> <<"c0">>]
===============================================================================
