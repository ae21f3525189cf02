CHECK_DEADLOCK FALSE
SPECIFICATION FairSpec
CONSTANTS
    CHECKLIST_STEPS = {"created_client", "created_budget"}
    MaxAnswers = 2
    MaxOverwrites = 1
    TECHNICIANS = {"ana", "bia"}
    TechniciansOf <- MCTechniciansOf
    MaxListLoads = 2
    PRICES = {150, 155}
    QUANTITIES = {1, 2}
    ROWS = {"r1", "r2"}
    MaxTimers = 4
    CEPS = {"cep1", "cep2"}
    Blank = "blank"
    MaxLookups = 3
    MaxCardForms = 2
    MaxPageLoads = 1
INVARIANTS CalendarAgrees TotalReflectsItems ErrorsAreCurrent AddressUnlessOvertaken CardPostTokenized
PROPERTIES ChecklistCatchesUp PageRevealed
