SPECIFICATION Spec
CONSTANTS
  Requests <- MCRequests
INVARIANTS
  ClientRequestsAgree
  EventsFromApi
