---- MODULE SeasonLists ----
\* Seasons as the data downloader's server lists them, and the layouts a browser has stored.
CONSTANTS
    SeasonSignals,   \* season -> the signals its sensor list names
    FirstSeason,     \* the season the page starts with
    Stored           \* season -> the signals of the layout in localStorage, stale ones included

ASSUME SeasonAssumption == FirstSeason \in DOMAIN SeasonSignals /\ DOMAIN Stored = DOMAIN SeasonSignals
============================
