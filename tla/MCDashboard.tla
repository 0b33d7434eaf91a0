------------------------------ MODULE MCDashboard ------------------------------
EXTENDS Dashboard

MCInstruments == <<"EUR_USD", "USD_JPY">>
=============================================================================
